---- MODULE Spec2Model ----
(***************************************************************************)
(* Verification model of the sonde ingestion engine:                       *)
(*   - the reconnecting WebSocket transport (src/lib/websocket.ts)         *)
(*   - the EventBuffer ring buffer (src/lib/websocket.ts)                  *)
(*   - the LRU cache / request coalescers (memo.ts, identity.ts)           *)
(*   - the firehose viewer's message handler (FirehoseViewer.svelte)       *)
(* Each subsystem has its own specification over the shared variable list; *)
(* a specification leaves the other subsystems' variables untouched.       *)
(***************************************************************************)
EXTENDS Integers, Sequences, FiniteSets, TLC

VARIABLES
  \* ---- createReconnectingWebSocket closure state ----
  socket,            \* id of the socket held in `socket`, 0 = null
  sockState,         \* readyState of every socket object the transport created
  retryCount,
  retryTimeout,      \* timer handle: 0 = null, Fired = handle of a timer that ran, else timer id
  timers,            \* pending setTimeout callbacks: timer id -> delay, 0 = not pending
  intentionalClose,
  urlValid,          \* whether `new WebSocket(url)` succeeds for this transport's url
  options,           \* the initialDelay and maxDelay of the WebSocketOptions, Undefined = not given
  \* ---- observation (history) variables for the transport ----
  last,              \* what the most recent step did
  disconnected,      \* disconnect() returned and the caller has not called connect() since
  used,              \* retry timers scheduled since the last successful open (saturating)
  owed,              \* an unintentional close scheduled a retry and no attempt followed yet
  attempts,          \* sockets created by retry timers since the caller's last connect()
  everOpened,        \* some socket reached OPEN
  scheduled,         \* retries scheduled since the last open or disconnect()
  streak,            \* unintentional closes since the last open or caller connect() (saturating)
  fresh,             \* a socket opened and no unintentional close happened since
  \* ---- EventBuffer instance ----
  eventBuffer,       \* record of the fields buffer, head, tail, count, maxSize
  \* ---- observation variables for the buffer ----
  hist,              \* items pushed since creation or the last clear, in push order
  resized,           \* setMaxSize changed the capacity since creation or the last clear
  \* ---- request coalescers ----
  wrapper,           \* the coalescing wrapper exercised: "memoizeAsync", "dedupFetch" or "resolveIdentity"
  now,               \* Date.now()
  cache,             \* LRUCache.cache of the memoizeAsync / dedupFetch closure: entries in Map insertion order
  inflight,          \* the closure's inflight map: key -> promise id, 0 = absent
  storage,           \* localStorage identity entries: key -> cachedAt, Absent = no entry
  inflightResolutions, \* identity.ts in-flight map: key -> promise id, 0 = absent
  comps,             \* underlying computations started and not yet settled
  nextId,            \* id of the next promise created
  \* ---- observation variable for the coalescers ----
  failedLast,        \* key -> its computation failed and no call for it was made since
  \* ---- a standalone LRUCache instance ----
  lruCache,          \* record of the fields cache (entries in Map insertion order), maxSize, ttl
  \* ---- observation variables for the LRUCache ----
  recency,           \* keys in the order of their last get-hit or set, oldest first
  storedAt,          \* key -> Date.now() at its last set, Absent = never set
  \* ---- firehose viewer ----
  paused,
  decodeLoaded,      \* the module-level `decode` has been assigned by ensureCborLoaded
  awaiting,          \* onMessage handlers suspended in ensureCborLoaded at `await import(...)`
  eventCount,
  \* ---- observation variables for the viewer ----
  recvd,             \* number of messages the connection has delivered
  pushLog,           \* receipt numbers of the events pushed, in push order
  \* ---- decoders and parsers (pure functions of their argument) ----
  viewer,            \* a stream viewer: its transports, handlers, buffer log and render timer
  input,             \* the argument handed to the function exercised
  output,            \* what the call produced: a value, a thrown error, or no return
  dagCborStrict      \* the @ipld/dag-cbor decoder rejects items outside DAG-CBOR

wsConfig == <<urlValid, options>>
wsVars == <<socket, sockState, retryCount, retryTimeout, timers, intentionalClose, wsConfig>>
wsObs == <<scheduled, streak, fresh>>
wsState == <<wsVars, disconnected, used, owed, attempts, everOpened, wsObs>>
bufState == <<eventBuffer, hist, resized>>
memoState == <<cache, inflight>>
idState == <<storage, inflightResolutions>>
coState == <<wrapper, now, memoState, idState, comps, nextId, failedLast>>
lruState == <<lruCache, recency, storedAt>>
viewState == <<paused, decodeLoaded, awaiting, eventCount, recvd, pushLog>>
codecState == <<input, output, dagCborStrict>>
vars == <<last, wsState, bufState, coState, lruState, viewState, codecState, viewer>>

notWS == <<bufState, coState, lruState, viewState, codecState, viewer>>
notBuf == <<wsState, coState, lruState, viewState, codecState, viewer>>
notCo == <<wsState, bufState, lruState, viewState, codecState, viewer>>
notLRU == <<wsState, bufState, wrapper, memoState, idState, comps, nextId, failedLast, viewState, codecState, viewer>>
notView == <<wsState, hist, resized, coState, lruState, input, dagCborStrict, viewer>>
notCodec == <<wsState, bufState, coState, lruState, viewState, viewer>>

(***************************************************************************)
(* Bounds of the model                                                     *)
(***************************************************************************)
MaxSockets == 2
LowMaxDelay == 1500  \* a maxDelay option below twice the default initialDelay
MaxTimers == 2
maxRetries == 2
MaxCap == 3          \* largest buffer capacity tried
MaxItem == 2         \* items pushed are drawn from 1..MaxItem
MaxPushes == 5       \* pushes followed between two clears
MaxMany == 2         \* longest array handed to pushMany
MAX_EVENTS == 2      \* capacity of the viewer's buffer, scaled down from 500
MaxKeys == 2         \* keys handed to a coalescing wrapper
MaxResult == 1       \* results are Undefined or 1..MaxResult
MaxCalls == 3        \* underlying computations started
MaxTime == 2         \* clock ticks followed
MaxLruKeys == 3      \* keys handed to the standalone LRUCache
MaxLruSize == 2      \* largest maxSize the standalone LRUCache is constructed with
lruTtl == 1          \* ttlMs the standalone LRUCache is constructed with, in clock ticks
memoMaxSize == 1     \* options.maxSize of memoizeAsync, scaled down from 500
memoTtl == 1         \* options.ttl of memoizeAsync in clock ticks, scaled down from 60000 ms
dedupMaxSize == 1    \* cache size of createDeduplicatedFetch, scaled down from 200
dedupTtl == 1        \* ttlMs of createDeduplicatedFetch in clock ticks, scaled down from 5000 ms
TTL_IDENTITY == 1    \* TTL.IDENTITY in clock ticks, scaled down from one hour
MaxMsgs == 4         \* messages received on the connection
MaxBytes == 6        \* longest arbitrary byte sequence handed to the frame decoder
MaxOps == 2          \* longest ops array of a commit body
MaxSeq == 7          \* the sequence number the bodies carry
MaxUs == 2500        \* time_us values are drawn from -MaxUs..MaxUs
MaxBlocks == 3       \* most blocks in an archive
MaxFill == 60        \* most repetitions of the fill character in a classified string
MaxElems == 2        \* most elements of a classified array
MaxTidSymbols == 3   \* symbols the decoded TIDs vary over
MaxFetchedBlocks == 1  \* most blocks in a fetched archive
MaxTransports == 2   \* transports a stream viewer creates
MaxStreamMsgs == 2   \* messages the transports of a stream viewer deliver
MaxClock == 2        \* clock ticks a stream viewer is followed for
RenderInterval == 1  \* RENDER_INTERVAL_MS in clock ticks, scaled down from 100 ms
decodeMaxSize == 1   \* capacity of decodeCache, scaled down from 2000
KeySliceLength == 3  \* characters of a string kept in its cache key, scaled down from 200
MaxJsonLength == 30  \* JSON length from which an object is not cached, scaled down from 500
decodeTtl == 1       \* ttl of decodeCache in clock ticks, scaled down from 5 minutes

SockIds == 1..MaxSockets
TimerIds == 1..MaxTimers

(***************************************************************************)
(* Program constants                                                       *)
(***************************************************************************)
DEFAULT_MAX_RETRIES == 10
DEFAULT_INITIAL_DELAY == 1000
DEFAULT_MAX_DELAY == 30000

Null == 0
Fired == -1
Undefined == 0

\* options.initialDelay ?? DEFAULT_INITIAL_DELAY, options.maxDelay ?? DEFAULT_MAX_DELAY
initialDelay ==
  IF options.initialDelay = Undefined THEN DEFAULT_INITIAL_DELAY ELSE options.initialDelay
maxDelay ==
  IF options.maxDelay = Undefined THEN DEFAULT_MAX_DELAY ELSE options.maxDelay

Min(a, b) == IF a <= b THEN a ELSE b
Max(a, b) == IF a >= b THEN a ELSE b
MinOf(S) == CHOOSE x \in S : \A y \in S : x <= y

RECURSIVE Pow2(_)
Pow2(n) == IF n = 0 THEN 1 ELSE 2 * Pow2(n - 1)

NoStep == [act |-> "init"]
NoInput == [kind |-> "none"]
NoOutput == [k |-> "none"]

(***************************************************************************)
(* Transport                                                               *)
(***************************************************************************)
\* faulty delay: the cap is not applied
Backoff_Uncapped(count, initial, cap) == initial * Pow2(count)

\* Math.min(initialDelay * Math.pow(2, retryCount), maxDelay)
Backoff(count, initial, cap) == Min(initial * Pow2(count), cap)

calculateDelay == Backoff(retryCount, initialDelay, maxDelay)

\* faulty guard: a socket that is still CONNECTING does not stop connect()
ConnectGuard_OpenOnly ==
  /\ socket # Null
  /\ sockState[socket] = "OPEN"

\* socket?.readyState === OPEN || socket?.readyState === CONNECTING
ConnectGuard ==
  /\ socket # Null
  /\ sockState[socket] \in {"OPEN", "CONNECTING"}

\* faulty retry condition: the last retry of the budget is never scheduled
RetryCondition_OffByOne == ~intentionalClose /\ retryCount < maxRetries - 1

\* the retry condition of socket.onclose
RetryCondition == ~intentionalClose /\ retryCount < maxRetries

FreeSockIds == {i \in SockIds : sockState[i] \in {"NONE", "CLOSED"}}
FreeTimerIds == {t \in TimerIds : timers[t] = 0}
PendingTimers == {t \in TimerIds : timers[t] # 0}

\* a socket object nobody references any more and that has delivered its close event
Release(st, s) == IF s # Null /\ st[s] = "CLOSED" THEN [st EXCEPT ![s] = "NONE"] ELSE st

\* connect() creates a socket unless the guard returns early or the constructor throws
Creates == ~ConnectGuard /\ urlValid

\* new WebSocket(url) throws: the catch block reports to options.onError
Throws == ~ConnectGuard /\ ~urlValid

\* Model bound: a connect() that creates a socket needs an unused socket id.
CanConnect == Creates => FreeSockIds # {}

\* body of connect(): constrains socket, sockState, intentionalClose
connect ==
  IF ConnectGuard
  THEN UNCHANGED <<socket, sockState, intentionalClose>>
  ELSE /\ intentionalClose' = FALSE
       /\ IF urlValid
          THEN LET new == MinOf(FreeSockIds)
               IN /\ socket' = new
                  /\ sockState' = [Release(sockState, socket) EXCEPT ![new] = "CONNECTING"]
          ELSE UNCHANGED <<socket, sockState>>

\* the caller invokes controller.connect()
CallerConnect ==
  /\ CanConnect
  /\ connect
  /\ UNCHANGED <<retryCount, retryTimeout, timers, wsConfig>>
  /\ last' = [act |-> "connect", created |-> Creates, liveBefore |-> ConnectGuard,
              threw |-> Throws]
  /\ disconnected' = FALSE
  /\ attempts' = 0
  /\ owed' = IF Creates THEN FALSE ELSE owed
  /\ streak' = IF ConnectGuard THEN streak ELSE 0
  /\ UNCHANGED <<used, everOpened, scheduled, fresh>>
  /\ UNCHANGED notWS

\* a retry timer created by socket.onclose fires and runs connect
TimerFire(t) ==
  /\ timers[t] # 0
  /\ CanConnect
  /\ connect
  /\ timers' = [timers EXCEPT ![t] = 0]
  /\ retryTimeout' = IF retryTimeout = t THEN Fired ELSE retryTimeout
  /\ UNCHANGED <<retryCount, wsConfig>>
  /\ last' = [act |-> "timer", created |-> Creates, liveBefore |-> ConnectGuard,
              threw |-> Throws]
  /\ attempts' = IF Creates THEN Min(attempts + 1, maxRetries + 1) ELSE attempts
  /\ owed' = IF Creates THEN FALSE ELSE owed
  /\ UNCHANGED <<disconnected, used, everOpened, wsObs>>
  /\ UNCHANGED notWS

\* the caller invokes controller.disconnect()
disconnect ==
  /\ intentionalClose' = TRUE
  /\ timers' = IF retryTimeout \in TimerIds THEN [timers EXCEPT ![retryTimeout] = 0] ELSE timers
  /\ retryTimeout' = Null
  /\ sockState' = IF socket = Null THEN sockState
                  ELSE IF sockState[socket] \in {"CONNECTING", "OPEN"}
                       THEN [sockState EXCEPT ![socket] = "CLOSING"]
                       ELSE Release(sockState, socket)
  /\ socket' = Null
  /\ retryCount' = 0
  /\ UNCHANGED wsConfig
  /\ last' = [act |-> "disconnect"]
  /\ disconnected' = TRUE
  /\ owed' = FALSE
  /\ scheduled' = 0
  /\ UNCHANGED <<used, attempts, everOpened, streak, fresh>>
  /\ UNCHANGED notWS

\* socket.onopen
OnOpen(s) ==
  /\ sockState[s] = "CONNECTING"
  /\ sockState' = [sockState EXCEPT ![s] = "OPEN"]
  /\ retryCount' = 0
  /\ UNCHANGED <<socket, retryTimeout, timers, intentionalClose, wsConfig>>
  /\ last' = [act |-> "open"]
  /\ used' = 0
  /\ everOpened' = TRUE
  /\ scheduled' = 0
  /\ streak' = 0
  /\ fresh' = TRUE
  /\ UNCHANGED <<disconnected, owed, attempts>>
  /\ UNCHANGED notWS

\* faulty error handler: an error ends the transport as disconnect() would
OnError_Terminates(s) ==
  /\ sockState[s] \in {"CONNECTING", "OPEN", "CLOSING"}
  /\ intentionalClose' = TRUE
  /\ UNCHANGED <<socket, sockState, retryCount, retryTimeout, timers, wsConfig>>
  /\ last' = [act |-> "error"]
  /\ UNCHANGED <<disconnected, used, owed, attempts, everOpened, wsObs>>
  /\ UNCHANGED notWS

\* socket.onerror: reports to the sink only
OnError(s) ==
  /\ sockState[s] \in {"CONNECTING", "OPEN", "CLOSING"}
  /\ UNCHANGED wsVars
  /\ last' = [act |-> "error"]
  /\ UNCHANGED <<disconnected, used, owed, attempts, everOpened, wsObs>>
  /\ UNCHANGED notWS

\* the close event of socket s is delivered: readyState becomes CLOSED, socket.onclose runs
OnClose(s) ==
  /\ sockState[s] \in {"CONNECTING", "OPEN", "CLOSING"}
  /\ RetryCondition => FreeTimerIds # {}          \* model bound on pending timers
  /\ sockState' = [sockState EXCEPT ![s] = IF s = socket THEN "CLOSED" ELSE "NONE"]
  /\ IF RetryCondition
     THEN LET t == MinOf(FreeTimerIds)
          IN /\ timers' = [timers EXCEPT ![t] = calculateDelay]
             /\ retryCount' = retryCount + 1
             /\ retryTimeout' = t
     ELSE UNCHANGED <<timers, retryCount, retryTimeout>>
  /\ UNCHANGED <<socket, intentionalClose, wsConfig>>
  /\ last' = [act |-> "close", was |-> sockState[s], usedBefore |-> used,
              added |-> Cardinality({t \in TimerIds : timers'[t] # 0}) - Cardinality(PendingTimers),
              countBefore |-> retryCount, countAfter |-> retryCount',
              delay |-> IF RetryCondition THEN calculateDelay ELSE 0,
              scheduledBefore |-> scheduled, streakBefore |-> streak, fresh |-> fresh]
  /\ used' = IF RetryCondition THEN Min(used + 1, maxRetries) ELSE used
  /\ owed' = IF sockState[s] # "CLOSING" /\ RetryCondition THEN TRUE ELSE owed
  /\ scheduled' = IF RetryCondition THEN scheduled + 1 ELSE scheduled
  /\ streak' = IF sockState[s] # "CLOSING" THEN Min(streak + 1, maxRetries + 1) ELSE streak
  /\ fresh' = IF sockState[s] # "CLOSING" THEN FALSE ELSE fresh
  /\ UNCHANGED <<disconnected, attempts, everOpened>>
  /\ UNCHANGED notWS

NextWS ==
  \/ CallerConnect
  \/ disconnect
  \/ \E t \in TimerIds : TimerFire(t)
  \/ \E s \in SockIds : OnOpen(s)
  \/ \E s \in SockIds : OnError(s)
  \/ \E s \in SockIds : OnClose(s)

(***************************************************************************)
(* EventBuffer                                                             *)
(***************************************************************************)
Items == 1..MaxItem

\* constructor(maxSize): new Array(maxSize), head = tail = count = 0
EventBuffer(size) ==
  [buffer |-> [i \in 0..(size - 1) |-> Undefined], head |-> 0, tail |-> 0,
   count |-> 0, maxSize |-> size]

\* faulty push: a full buffer does not move its tail
push_TailStuck(b, event) ==
  LET written == [b EXCEPT !.buffer[b.head] = event, !.head = (b.head + 1) % b.maxSize]
  IN IF b.count < b.maxSize
     THEN [written EXCEPT !.count = b.count + 1]
     ELSE written

\* faulty push: count is incremented on every push
push_CountAlways(b, event) ==
  LET written == [b EXCEPT !.buffer[b.head] = event, !.head = (b.head + 1) % b.maxSize]
  IN IF b.count < b.maxSize
     THEN [written EXCEPT !.count = b.count + 1]
     ELSE [written EXCEPT !.count = b.count + 1, !.tail = (b.tail + 1) % b.maxSize]

push(b, event) ==
  LET written == [b EXCEPT !.buffer[b.head] = event, !.head = (b.head + 1) % b.maxSize]
  IN IF b.count < b.maxSize
     THEN [written EXCEPT !.count = b.count + 1]
     ELSE [written EXCEPT !.tail = (b.tail + 1) % b.maxSize]

RECURSIVE pushMany(_, _)
pushMany(b, events) ==
  IF events = <<>> THEN b ELSE pushMany(push(b, Head(events)), Tail(events))

getAll(b) ==
  IF b.count = 0 THEN <<>>
  ELSE [i \in 1..b.count |-> b.buffer[(b.tail + (i - 1)) % b.maxSize]]

\* faulty getRecent: the window starts at the oldest item
getRecent_FromOldest(b, n) ==
  LET actualN == Min(n, b.count)
  IN IF actualN = 0 THEN <<>>
     ELSE [i \in 1..actualN |-> b.buffer[(b.tail + (i - 1)) % b.maxSize]]

getRecent(b, n) ==
  LET actualN == Min(n, b.count)
      startIndex == b.count - actualN
  IN IF actualN = 0 THEN <<>>
     ELSE [i \in 1..actualN |-> b.buffer[(b.tail + startIndex + (i - 1)) % b.maxSize]]

clear(b) == EventBuffer(b.maxSize)

length(b) == b.count
isFull(b) == b.count >= b.maxSize

\* faulty setMaxSize: the oldest items are the ones replayed
setMaxSize_KeepOldest(b, size) ==
  IF size = b.maxSize THEN b
  ELSE LET items == getAll(b)
       IN pushMany(EventBuffer(size), SubSeq(items, 1, Min(size, Len(items))))

setMaxSize(b, size) ==
  IF size = b.maxSize THEN b
  ELSE LET items == getAll(b)
           startIndex == IF Len(items) - size > 0 THEN Len(items) - size ELSE 0
       IN pushMany(EventBuffer(size), SubSeq(items, startIndex + 1, Len(items)))

\* the arrays handed to pushMany
ItemSeqs == UNION {[1..n -> Items] : n \in 0..MaxMany}

Push(event) ==
  /\ Len(hist) < MaxPushes
  /\ eventBuffer' = push(eventBuffer, event)
  /\ hist' = Append(hist, event)
  /\ last' = [act |-> "push", before |-> eventBuffer, item |-> event]
  /\ UNCHANGED resized
  /\ UNCHANGED notBuf

PushMany(events) ==
  /\ Len(hist) + Len(events) <= MaxPushes
  /\ eventBuffer' = pushMany(eventBuffer, events)
  /\ hist' = hist \o events
  /\ last' = [act |-> "pushMany", before |-> eventBuffer, items |-> events]
  /\ UNCHANGED resized
  /\ UNCHANGED notBuf

Clear ==
  /\ eventBuffer' = clear(eventBuffer)
  /\ hist' = <<>>
  /\ resized' = FALSE
  /\ last' = [act |-> "clear"]
  /\ UNCHANGED notBuf

SetMaxSize(size) ==
  /\ eventBuffer' = setMaxSize(eventBuffer, size)
  /\ resized' = (resized \/ size # eventBuffer.maxSize)
  /\ last' = [act |-> "setMaxSize", before |-> eventBuffer, size |-> size]
  /\ UNCHANGED hist
  /\ UNCHANGED notBuf

\* a reader calls getRecent(n)
GetRecent(n) ==
  /\ last' = [act |-> "getRecent", n |-> n, ret |-> getRecent(eventBuffer, n)]
  /\ UNCHANGED bufState
  /\ UNCHANGED notBuf

NextBuf ==
  \/ \E n \in 0..(MaxCap + 1) : GetRecent(n)
  \/ \E event \in Items : Push(event)
  \/ \E events \in ItemSeqs : PushMany(events)
  \/ Clear
  \/ \E size \in 1..MaxCap : SetMaxSize(size)

(***************************************************************************)
(* LRUCache                                                                *)
(***************************************************************************)
Keys == 1..MaxKeys
Results == {Undefined} \cup (1..MaxResult)

\* Map.delete(key) on the insertion-ordered entry list
MapDelete(c, key) == SelectSeq(c, LAMBDA e : e.key # key)
MapHas(c, key) == \E i \in 1..Len(c) : c[i].key = key
MapGet(c, key) == c[CHOOSE i \in 1..Len(c) : c[i].key = key]

\* LRUCache.get: the value returned
LRUCache_get(c, key, t) ==
  IF ~MapHas(c, key) THEN Undefined
  ELSE IF t > MapGet(c, key).expires THEN Undefined
  ELSE MapGet(c, key).value

\* faulty get: a hit leaves the entry at its position
LRUCache_afterGet_NoTouch(c, key, t) ==
  IF ~MapHas(c, key) THEN c
  ELSE IF t > MapGet(c, key).expires THEN MapDelete(c, key)
  ELSE c

\* LRUCache.get: the cache it leaves behind
LRUCache_afterGet(c, key, t) ==
  IF ~MapHas(c, key) THEN c
  ELSE IF t > MapGet(c, key).expires THEN MapDelete(c, key)
  ELSE Append(MapDelete(c, key), MapGet(c, key))

\* faulty set: nothing is evicted at capacity
LRUCache_set_NoEvict(c, key, value, t, maxSize, ttl) ==
  Append(MapDelete(c, key), [key |-> key, value |-> value, expires |-> t + ttl])

LRUCache_set(c, key, value, t, maxSize, ttl) ==
  LET deleted == MapDelete(c, key)
      evicted == IF Len(deleted) >= maxSize /\ Len(deleted) > 0 THEN Tail(deleted) ELSE deleted
  IN Append(evicted, [key |-> key, value |-> value, expires |-> t + ttl])

\* faulty has: the expiry time is not looked at
LRUCache_has_IgnoresTtl(c, key, t) == MapHas(c, key)

LRUCache_has(c, key, t) == MapHas(c, key) /\ ~(t > MapGet(c, key).expires)

LRUCache_afterHas(c, key, t) ==
  IF MapHas(c, key) /\ t > MapGet(c, key).expires THEN MapDelete(c, key) ELSE c

LRUCache_clear(c) == <<>>

\* constructor(maxSize, ttlMs)
LRUCache(maxSize, ttlMs) == [cache |-> <<>>, maxSize |-> maxSize, ttl |-> ttlMs]

LruKeys == 1..MaxLruKeys
\* the values stored
LruValues == {MaxResult}
Touch(r, key) == Append(SelectSeq(r, LAMBDA k : k # key), key)

\* cache.get(key)
LruGet(key) ==
  /\ lruCache' = [lruCache EXCEPT !.cache = LRUCache_afterGet(lruCache.cache, key, now)]
  /\ last' = [act |-> "get", key |-> key, before |-> lruCache.cache,
              ret |-> LRUCache_get(lruCache.cache, key, now)]
  /\ recency' = IF MapHas(lruCache.cache, key) /\ ~(now > MapGet(lruCache.cache, key).expires)
                THEN Touch(recency, key) ELSE recency
  /\ UNCHANGED <<storedAt, now>>
  /\ UNCHANGED notLRU

\* cache.set(key, value)
LruSet(key, value) ==
  /\ lruCache' = [lruCache EXCEPT !.cache =
                    LRUCache_set(lruCache.cache, key, value, now, lruCache.maxSize, lruCache.ttl)]
  /\ last' = [act |-> "set", key |-> key, before |-> lruCache.cache]
  /\ recency' = Touch(recency, key)
  /\ storedAt' = [storedAt EXCEPT ![key] = now]
  /\ UNCHANGED now
  /\ UNCHANGED notLRU

\* cache.has(key)
LruHas(key) ==
  /\ lruCache' = [lruCache EXCEPT !.cache = LRUCache_afterHas(lruCache.cache, key, now)]
  /\ last' = [act |-> "has", key |-> key, before |-> lruCache.cache,
              ret |-> LRUCache_has(lruCache.cache, key, now)]
  /\ UNCHANGED <<recency, storedAt, now>>
  /\ UNCHANGED notLRU

\* cache.clear()
LruClear ==
  /\ lruCache' = [lruCache EXCEPT !.cache = LRUCache_clear(lruCache.cache)]
  /\ last' = [act |-> "clearCache", before |-> lruCache.cache]
  /\ UNCHANGED <<recency, storedAt, now>>
  /\ UNCHANGED notLRU

(***************************************************************************)
(* memoizeAsync (createDeduplicatedFetch wraps fetch in the same way)      *)
(***************************************************************************)
PendingFor(key) == {c.id : c \in {d \in comps : d.key = key}}

\* faulty lookup: the in-flight map is never consulted
InflightHit_Never(key) == FALSE

\* const pending = inflight.get(key); if (pending) ...
InflightHit(key) == inflight[key] # 0

\* faulty catch handler: the key stays in the in-flight map
InflightAfterCatch_Kept(key) == inflight

\* .catch((error) => { inflight.delete(key); throw error; })
InflightAfterCatch(key) == [inflight EXCEPT ![key] = 0]

\* one call of the memoized function
MemoCall(key) ==
  LET cached == LRUCache_get(cache, key, now)
      starts == cached = Undefined /\ ~InflightHit(key)
  IN /\ wrapper = "memoizeAsync"
     /\ starts => nextId <= MaxCalls
     /\ cache' = LRUCache_afterGet(cache, key, now)
     /\ IF starts
        THEN /\ comps' = comps \cup {[id |-> nextId, key |-> key]}
             /\ inflight' = [inflight EXCEPT ![key] = nextId]
             /\ nextId' = nextId + 1
        ELSE UNCHANGED <<comps, inflight, nextId>>
     /\ last' = [act |-> "call", key |-> key, pendingBefore |-> PendingFor(key),
                 afterFailure |-> failedLast[key], started |-> starts,
                 got |-> IF cached # Undefined THEN "cached"
                         ELSE IF InflightHit(key) THEN "pending" ELSE "fresh",
                 ret |-> IF cached # Undefined THEN cached
                         ELSE IF InflightHit(key) THEN inflight[key] ELSE nextId]
     /\ failedLast' = [failedLast EXCEPT ![key] = FALSE]
     /\ UNCHANGED <<wrapper, now, idState>>
     /\ UNCHANGED notCo

\* faulty then handler: the key stays in the in-flight map
InflightAfterThen_Kept(key) == inflight

\* .then((result) => { cache.set(key, result); inflight.delete(key); ... })
InflightAfterThen(key) == [inflight EXCEPT ![key] = 0]

\* fn's promise fulfils with result: the .then handler runs
MemoResolve(c, result) ==
  /\ wrapper = "memoizeAsync"
  /\ c \in comps
  /\ cache' = LRUCache_set(cache, c.key, result, now, memoMaxSize, memoTtl)
  /\ inflight' = InflightAfterThen(c.key)
  /\ comps' = comps \ {c}
  /\ last' = [act |-> "resolve", key |-> c.key, id |-> c.id, result |-> result]
  /\ UNCHANGED <<wrapper, now, idState, nextId, failedLast>>
  /\ UNCHANGED notCo

\* fn's promise rejects: the .catch handler runs
MemoReject(c) ==
  /\ wrapper = "memoizeAsync"
  /\ c \in comps
  /\ inflight' = InflightAfterCatch(c.key)
  /\ comps' = comps \ {c}
  /\ last' = [act |-> "fail", key |-> c.key, id |-> c.id, cacheBefore |-> cache]
  /\ failedLast' = [failedLast EXCEPT ![c.key] = TRUE]
  /\ UNCHANGED <<wrapper, now, cache, idState, nextId>>
  /\ UNCHANGED notCo

\* time passes
Tick ==
  /\ now < MaxTime
  /\ now' = now + 1
  /\ last' = [act |-> "tick"]
  /\ UNCHANGED <<wrapper, memoState, idState, comps, nextId, failedLast>>
  /\ UNCHANGED notCo

NextLRU ==
  \/ \E key \in LruKeys : LruGet(key)
  \/ \E key \in LruKeys, value \in LruValues : LruSet(key, value)
  \/ \E key \in LruKeys : LruHas(key)
  \/ LruClear
  \/ Tick

(***************************************************************************)
(* createDeduplicatedFetch: keys are the urls of GET requests              *)
(***************************************************************************)
Methods == {"GET", "POST"}

dedupFetch(url, method) ==
  LET cached == LRUCache_get(cache, url, now)
      starts == cached = Undefined /\ inflight[url] = 0
  IN /\ wrapper = "dedupFetch"
     /\ IF method # "GET"
        THEN \* passed through to fetch: no key, no cache, no in-flight entry
             /\ UNCHANGED <<cache, comps, inflight, nextId, failedLast>>
             /\ last' = [act |-> "bypass", key |-> url]
        ELSE /\ starts => nextId <= MaxCalls
             /\ cache' = LRUCache_afterGet(cache, url, now)
             /\ IF starts
                THEN /\ comps' = comps \cup {[id |-> nextId, key |-> url]}
                     /\ inflight' = [inflight EXCEPT ![url] = nextId]
                     /\ nextId' = nextId + 1
                ELSE UNCHANGED <<comps, inflight, nextId>>
             /\ last' = [act |-> "call", key |-> url, pendingBefore |-> PendingFor(url),
                         afterFailure |-> failedLast[url], started |-> starts,
                         got |-> IF cached # Undefined THEN "cached"
                                 ELSE IF inflight[url] # 0 THEN "pending" ELSE "fresh",
                         ret |-> IF cached # Undefined THEN cached
                                 ELSE IF inflight[url] # 0 THEN inflight[url] ELSE nextId]
             /\ failedLast' = [failedLast EXCEPT ![url] = FALSE]
     /\ UNCHANGED <<wrapper, now, idState>>
     /\ UNCHANGED notCo

\* the response is ok and response.json() yields data: rest of the .then handler
DedupFetchResolved(c, data) ==
  /\ wrapper = "dedupFetch"
  /\ c \in comps
  /\ cache' = LRUCache_set(cache, c.key, data, now, dedupMaxSize, dedupTtl)
  /\ inflight' = InflightAfterThen(c.key)
  /\ comps' = comps \ {c}
  /\ last' = [act |-> "resolve", key |-> c.key, id |-> c.id, result |-> data]
  /\ UNCHANGED <<wrapper, now, idState, nextId, failedLast>>
  /\ UNCHANGED notCo

\* fetch rejects, the response is not ok, or response.json() rejects: .catch runs
DedupFetchRejected(c) ==
  /\ wrapper = "dedupFetch"
  /\ c \in comps
  /\ inflight' = InflightAfterCatch(c.key)
  /\ comps' = comps \ {c}
  /\ last' = [act |-> "fail", key |-> c.key, id |-> c.id, cacheBefore |-> cache]
  /\ failedLast' = [failedLast EXCEPT ![c.key] = TRUE]
  /\ UNCHANGED <<wrapper, now, cache, idState, nextId>>
  /\ UNCHANGED notCo

(***************************************************************************)
(* resolveIdentity over the localStorage identity cache                    *)
(***************************************************************************)
Absent == -1

\* getCache: whether the entry is returned
getCache(st, key, t) == st[key] # Absent /\ ~(t - st[key] > TTL_IDENTITY)

\* getCache: the storage it leaves behind (an expired entry is removed)
afterGetCache(st, key, t) ==
  IF st[key] # Absent /\ t - st[key] > TTL_IDENTITY THEN [st EXCEPT ![key] = Absent] ELSE st

\* cacheIdentity: setCache under the identifier, the DID and the handle;
\* written = the keys whose setItem succeeded
cacheIdentity(st, written, t) == [k \in Keys |-> IF k \in written THEN t ELSE st[k]]

\* the key sets one cacheIdentity(identifier, identity) can write: nothing
\* (no storage, or setItem throws), or the identifier with its aliases
WrittenSets(key) == {{}} \cup {W \in SUBSET Keys : key \in W}

ResolveIdentityCall(key) ==
  LET cached == getCache(storage, key, now)
      starts == ~cached /\ inflightResolutions[key] = 0
  IN /\ wrapper = "resolveIdentity"
     /\ starts => nextId <= MaxCalls
     /\ storage' = afterGetCache(storage, key, now)
     /\ IF starts
        THEN /\ comps' = comps \cup {[id |-> nextId, key |-> key]}
             /\ inflightResolutions' = [inflightResolutions EXCEPT ![key] = nextId]
             /\ nextId' = nextId + 1
        ELSE UNCHANGED <<comps, inflightResolutions, nextId>>
     /\ last' = [act |-> "call", key |-> key, pendingBefore |-> PendingFor(key),
                 afterFailure |-> failedLast[key], started |-> starts,
                 got |-> IF cached THEN "cached"
                         ELSE IF inflightResolutions[key] # 0 THEN "pending" ELSE "fresh",
                 ret |-> IF cached THEN storage[key]
                         ELSE IF inflightResolutions[key] # 0 THEN inflightResolutions[key]
                         ELSE nextId]
     /\ failedLast' = [failedLast EXCEPT ![key] = FALSE]
     /\ UNCHANGED <<wrapper, now, memoState>>
     /\ UNCHANGED notCo

\* resolveIdentityInternal returns: it has cached the identity; .finally runs
IdentityResolved(c, written) ==
  /\ wrapper = "resolveIdentity"
  /\ c \in comps
  /\ storage' = cacheIdentity(storage, written, now)
  /\ inflightResolutions' = [inflightResolutions EXCEPT ![c.key] = 0]
  /\ comps' = comps \ {c}
  /\ last' = [act |-> "resolve", key |-> c.key, id |-> c.id, result |-> written]
  /\ UNCHANGED <<wrapper, now, memoState, nextId, failedLast>>
  /\ UNCHANGED notCo

\* resolveIdentityInternal throws: .finally runs
IdentityRejected(c) ==
  /\ wrapper = "resolveIdentity"
  /\ c \in comps
  /\ inflightResolutions' = [inflightResolutions EXCEPT ![c.key] = 0]
  /\ comps' = comps \ {c}
  /\ last' = [act |-> "fail", key |-> c.key, id |-> c.id, cacheBefore |-> storage]
  /\ failedLast' = [failedLast EXCEPT ![c.key] = TRUE]
  /\ UNCHANGED <<wrapper, now, memoState, storage, nextId>>
  /\ UNCHANGED notCo

AllComps == [id : 1..MaxCalls, key : Keys]

NextCo ==
  \/ \E key \in Keys : MemoCall(key)
  \/ \E c \in AllComps, result \in Results : MemoResolve(c, result)
  \/ \E c \in AllComps : MemoReject(c)
  \/ \E url \in Keys, method \in Methods : dedupFetch(url, method)
  \/ \E c \in AllComps, data \in Results : DedupFetchResolved(c, data)
  \/ \E c \in AllComps : DedupFetchRejected(c)
  \/ \E key \in Keys : ResolveIdentityCall(key)
  \/ \E c \in AllComps : \E written \in WrittenSets(c.key) : IdentityResolved(c, written)
  \/ \E c \in AllComps : IdentityRejected(c)
  \/ Tick

(***************************************************************************)
(* CBOR items and their encoding (the frames of the firehose)              *)
(***************************************************************************)
\* An item is a record: major (the major type), width (the bytes of the
\* argument after the initial byte: 0, 1, 2, 4, 8, or Indefinite), and
\*   arg      the argument of an integer, simple value or tag,
\*   content  the bytes of a definite-length string,
\*   items    the elements of an array, the keys and values of a map in
\*            turn, the chunks of an indefinite-length string, or the one
\*            item a tag encloses.
Indefinite == 31
BreakByte == 255
NoItem == [major |-> Absent]

UInt(n, w) == [major |-> 0, width |-> w, arg |-> n]
NInt(n, w) == [major |-> 1, width |-> w, arg |-> n]
Bytes(c, w) == [major |-> 2, width |-> w, content |-> c]
Text(c, w) == [major |-> 3, width |-> w, content |-> c]
Chunks(m, cs) == [major |-> m, width |-> Indefinite, items |-> cs]
Arr(xs, w) == [major |-> 4, width |-> w, items |-> xs]
Map(kvs, w) == [major |-> 5, width |-> w, items |-> kvs]
Tag(n, w, x) == [major |-> 6, width |-> w, arg |-> n, items |-> <<x>>]
Simple(n) == [major |-> 7, width |-> 0, arg |-> n]
CborNull == Simple(22)
CborFalse == Simple(20)

\* the argument an item's head announces
ArgOf(it) ==
  IF "arg" \in DOMAIN it THEN it.arg
  ELSE IF "content" \in DOMAIN it THEN Len(it.content)
  ELSE IF it.major = 5 THEN Len(it.items) \div 2
  ELSE Len(it.items)

\* initial byte and big-endian argument
HeadBytes(major, width, arg) ==
  CASE width = 0 -> <<major * 32 + arg>>
    [] width = 1 -> <<major * 32 + 24, arg>>
    [] width = 2 -> <<major * 32 + 25, arg \div 256, arg % 256>>
    [] width = 4 -> <<major * 32 + 26, arg \div 16777216, (arg \div 65536) % 256,
                      (arg \div 256) % 256, arg % 256>>
    [] width = 8 -> <<major * 32 + 27, 0, 0, 0, 0, arg \div 16777216,
                      (arg \div 65536) % 256, (arg \div 256) % 256, arg % 256>>
    [] width = Indefinite -> <<major * 32 + Indefinite>>

RECURSIVE encode(_), encodeAll(_)
encodeAll(xs) == IF xs = <<>> THEN <<>> ELSE encode(Head(xs)) \o encodeAll(Tail(xs))

encode(it) ==
  HeadBytes(it.major, it.width, IF it.width = Indefinite THEN 0 ELSE ArgOf(it))
    \o (IF "content" \in DOMAIN it THEN it.content
        ELSE IF "items" \in DOMAIN it THEN encodeAll(it.items)
        ELSE <<>>)
    \o (IF it.width = Indefinite THEN <<BreakByte>> ELSE <<>>)

\* the shortest width that holds an argument
MinWidth(n) == IF n < 24 THEN 0 ELSE IF n < 256 THEN 1 ELSE IF n < 65536 THEN 2 ELSE 4

RECURSIVE Concat(_)
Concat(cs) == IF cs = <<>> THEN <<>> ELSE Head(cs).content \o Concat(Tail(cs))

\* The value an item decodes to: the item without its encoding choices
\* (shortest arguments, definite lengths, strings in one piece).
RECURSIVE Value(_), ValueAll(_)
ValueAll(xs) == IF xs = <<>> THEN <<>> ELSE <<Value(Head(xs))>> \o ValueAll(Tail(xs))

Value(it) ==
  IF it.major \in {2, 3}
  THEN LET c == IF "content" \in DOMAIN it THEN it.content ELSE Concat(it.items)
       IN [major |-> it.major, width |-> MinWidth(Len(c)), content |-> c]
  ELSE IF it.major \in {4, 5}
  THEN [major |-> it.major, width |-> MinWidth(ArgOf(it)), items |-> ValueAll(it.items)]
  ELSE IF it.major = 6
  THEN [major |-> 6, width |-> MinWidth(it.arg), arg |-> it.arg, items |-> ValueAll(it.items)]
  ELSE [major |-> it.major, width |-> MinWidth(it.arg), arg |-> it.arg]

\* DAG-CBOR admits only shortest arguments, definite lengths, tag 42 (a CID),
\* and the simple values false, true and null.
RECURSIVE InDagCbor(_)
InDagCbor(it) ==
  /\ it.width # Indefinite
  /\ it.width = MinWidth(ArgOf(it))
  /\ it.major = 6 => it.arg = 42
  /\ it.major = 7 => it.arg \in {20, 21, 22}
  /\ "items" \in DOMAIN it => \A i \in 1..Len(it.items) : InDagCbor(it.items[i])
(***************************************************************************)
(* findCborBoundary: the cursor walk over the bytes of a frame             *)
(***************************************************************************)
\* bytes[pos] of a Uint8Array: Absent (undefined) outside 0..length-1
At(bytes, pos) == IF pos >= 0 /\ pos < Len(bytes) THEN bytes[pos + 1] ELSE Absent
\* an operand of << | >> &: undefined converts to 0
ToInt(b) == IF b = Absent THEN 0 ELSE b
\* (b0 << 24) | (b1 << 16) | (b2 << 8) | b3 is a signed 32-bit integer
Int32(b0, b1, b2, b3) ==
  (IF b0 >= 128 THEN b0 - 256 ELSE b0) * 16777216 + b1 * 65536 + b2 * 256 + b3
\* stands for every argument of 2^29 or more (an 8-byte argument can be one)
Huge == Pow2(29)
\* the 8-byte argument accumulated as a BigInt
Arg8(bytes, p) ==
  IF (\A i \in 0..3 : At(bytes, p + i) = 0) /\ At(bytes, p + 4) < 32
  THEN Int32(At(bytes, p + 4), At(bytes, p + 5), At(bytes, p + 6), At(bytes, p + 7))
  ELSE Huge

Ok(p) == [k |-> "ok", pos |-> p]
\* an Error, TypeError or RangeError leaves findCborBoundary
Thrown == [k |-> "throw", pos |-> 0]
\* the loop never ends
Hang == [k |-> "hang", pos |-> 0]

\* readValue(): pos is the cursor at the call, active the cursor positions of
\* the readValue calls on the stack, and the result the cursor at the return.
\* A call at a position that is already on the stack repeats the enclosing
\* call (the bytes do not change) and so on without end: the stack overflows
\* and a RangeError is thrown.  A `while (bytes[pos] !== 0xff)` loop that
\* starts an iteration at a position where an earlier iteration started
\* repeats itself forever.
RECURSIVE readValue(_, _, _), readItems(_, _, _, _), readUntilBreak(_, _, _, _, _)

\* `for (i < n) readValue()`.  Below position 0 every read finds an undefined
\* initial byte (major type 0, argument 0) and moves the cursor one up.
readItems(bytes, pos, n, active) ==
  IF n <= 0 THEN Ok(pos)
  ELSE IF pos < 0 THEN readItems(bytes, pos + Min(n, -pos), n - Min(n, -pos), active)
  ELSE LET r == readValue(bytes, pos, active)
       IN IF r.k # "ok" THEN r ELSE readItems(bytes, r.pos, n - 1, active)

readUntilBreak_KeepsBreak(bytes, pos, active, visited, per) ==
  IF At(bytes, pos) = BreakByte THEN Ok(pos)
  ELSE IF pos \in visited THEN Hang
  ELSE IF pos < -per
  THEN readUntilBreak(bytes, - ((-pos) % per), active, visited \cup {pos}, per)
  ELSE LET r == readItems(bytes, pos, per, active)
       IN IF r.k # "ok" THEN r
          ELSE readUntilBreak(bytes, r.pos, active, visited \cup {pos}, per)

\* `while (bytes[pos] !== 0xff) { readValue() (per times) } pos++`
readUntilBreak(bytes, pos, active, visited, per) ==
  IF At(bytes, pos) = BreakByte THEN Ok(pos + 1)
  ELSE IF pos \in visited THEN Hang
  ELSE IF pos < -per
  THEN readUntilBreak(bytes, - ((-pos) % per), active, visited \cup {pos}, per)
  ELSE LET r == readItems(bytes, pos, per, active)
       IN IF r.k # "ok" THEN r
          ELSE readUntilBreak(bytes, r.pos, active, visited \cup {pos}, per)

readValue(bytes, pos, active) ==
  IF pos >= Len(bytes) THEN Thrown
  ELSE IF pos \in active THEN Thrown
  ELSE
    LET initial == ToInt(At(bytes, pos))
        majorType == initial \div 32
        additionalInfo == initial % 32
        p == pos + 1
        stack == active \cup {pos}
        \* the switch on majorType, with the cursor after the argument
        rest(argValue, q) ==
          CASE majorType \in {0, 1, 7} -> Ok(q)
            [] majorType \in {2, 3} -> Ok(q + Min(argValue, Huge))
            [] majorType = 4 -> readItems(bytes, q, argValue, stack)
            [] majorType = 5 -> readItems(bytes, q, 2 * Max(0, Min(argValue, Huge)), stack)
            [] majorType = 6 -> readValue(bytes, q, stack)
    IN CASE additionalInfo < 24 -> rest(additionalInfo, p)
         [] additionalInfo = 24 ->
              \* BigInt(undefined) is a TypeError
              IF At(bytes, p) = Absent THEN Thrown ELSE rest(At(bytes, p), p + 1)
         [] additionalInfo = 25 ->
              rest(ToInt(At(bytes, p)) * 256 + ToInt(At(bytes, p + 1)), p + 2)
         [] additionalInfo = 26 ->
              rest(Int32(ToInt(At(bytes, p)), ToInt(At(bytes, p + 1)),
                         ToInt(At(bytes, p + 2)), ToInt(At(bytes, p + 3))), p + 4)
         [] additionalInfo = 27 ->
              IF \E i \in 0..7 : At(bytes, p + i) = Absent THEN Thrown
              ELSE rest(Arg8(bytes, p), p + 8)
         [] additionalInfo = Indefinite ->
              IF majorType \in {2, 3, 4} THEN readUntilBreak(bytes, p, stack, {}, 1)
              ELSE IF majorType = 5 THEN readUntilBreak(bytes, p, stack, {}, 2)
              ELSE Ok(p)
         [] OTHER -> rest(0, p)

findCborBoundary(bytes) == readValue(bytes, 0, {})
(***************************************************************************)
(* decodeFirehoseFrame, parseCommitEvent, parseFirehoseEvent               *)
(***************************************************************************)
\* the UTF-8 bytes of the strings the frames carry
Utf8(s) ==
  CASE s = "op" -> <<111, 112>>
    [] s = "t" -> <<116>>
    [] s = "x" -> <<120>>
    [] s = "#commit" -> <<35, 99, 111, 109, 109, 105, 116>>
    [] s = "#identity" -> <<35, 105, 100, 101, 110, 116, 105, 116, 121>>
    [] s = "repo" -> <<114, 101, 112, 111>>
    [] s = "seq" -> <<115, 101, 113>>
    [] s = "ops" -> <<111, 112, 115>>
    [] s = "action" -> <<97, 99, 116, 105, 111, 110>>
    [] s = "path" -> <<112, 97, 116, 104>>
    [] s = "cid" -> <<99, 105, 100>>
    [] s = "create" -> <<99, 114, 101, 97, 116, 101>>
    [] s = "update" -> <<117, 112, 100, 97, 116, 101>>
    [] s = "delete" -> <<100, 101, 108, 101, 116, 101>>
    [] s = "noop" -> <<110, 111, 111, 112>>
    [] s = "did" -> <<100, 105, 100>>
    [] s = "unknown" -> <<117, 110, 107, 110, 111, 119, 110>>
    [] s = "" -> <<>>
Str(s) == Text(Utf8(s), 0)

\* ---- JavaScript's view of a decoded value ----
\* value[key]: the entry of a decoded map, NoItem (undefined) otherwise
Get(v, key) ==
  IF v.major = 5 /\ \E i \in 1..(Len(v.items) \div 2) : v.items[2 * i - 1] = Str(key)
  THEN v.items[2 * (CHOOSE i \in 1..(Len(v.items) \div 2) : v.items[2 * i - 1] = Str(key))]
  ELSE NoItem
\* key in value
Has(v, key) == Get(v, key) # NoItem
IsNumber(v) == v.major \in {0, 1}
NumberOf(v) == IF v.major = 0 THEN v.arg ELSE -1 - v.arg
\* typeof v === "object" && v !== null: maps, arrays, byte strings, CIDs
IsObject(v) == v.major \in {2, 4, 5, 6}
\* !v is false
Truthy(v) ==
  CASE v = NoItem -> FALSE
    [] v.major = 0 -> v.arg # 0
    [] v.major = 3 -> v.content # <<>>
    [] v.major = 7 -> v.arg \notin {20, 22, 23}
    [] OTHER -> TRUE
\* a || b
OrElse(a, b) == IF Truthy(a) THEN a ELSE b

\* ---- the frames exercised ----
\* items that between them use every form of the encoding
FeatureItems ==
  { UInt(1, 0), UInt(1, 1), UInt(200, 1), UInt(1000, 2), UInt(70000, 4), UInt(70000, 8),
    NInt(0, 0), CborNull, Simple(21),
    Bytes(<<255>>, 0), Bytes(<<255, 255>>, 1), Text(<<97>>, 2), Text(<<97, 255>>, 4), Text(<<>>, 8),
    Arr(<<UInt(1, 0), Arr(<<UInt(2, 0)>>, 0)>>, 0), Arr(<<Str("x")>>, 1),
    Map(<<Str("x"), Map(<<Str("x"), UInt(1, 0)>>, 0)>>, 0), Map(<<>>, 2),
    Tag(42, 1, Bytes(<<0, 1>>, 0)), Tag(1, 0, UInt(5, 0)), Tag(2, 0, Tag(3, 0, Arr(<<>>, 0))),
    Chunks(2, <<Bytes(<<255>>, 0), Bytes(<<1>>, 0)>>), Chunks(3, <<Text(<<97>>, 0)>>), Chunks(3, <<>>),
    Arr(<<UInt(1, 0), Chunks(2, <<Bytes(<<255>>, 0)>>)>>, Indefinite),
    Arr(<<Arr(<<>>, Indefinite)>>, Indefinite),
    Map(<<Str("x"), Arr(<<CborNull>>, Indefinite)>>, Indefinite) }

\* { op: 1, t: ty, x: x }
HeaderOf(ty, x, w) == Map(<<Str("op"), UInt(1, 0), Str("t"), Str(ty), Str("x"), x>>, w)
CommitHeader == Map(<<Str("op"), UInt(1, 0), Str("t"), Str("#commit")>>, 0)
IdentityHeader == Map(<<Str("op"), UInt(1, 0), Str("t"), Str("#identity")>>, 0)
\* { op: -1 }, the header of an error frame
ErrorHeader == Map(<<Str("op"), NInt(0, 0)>>, 0)
FeatureHeaders ==
  {HeaderOf(ty, x, w) : ty \in {"#commit", "#identity"}, x \in FeatureItems, w \in {0, Indefinite}}
PlainHeaders == {CommitHeader, IdentityHeader, ErrorHeader}
\* first values that are no header: no op, an op that is no number, no map
NonHeaders == {Map(<<Str("t"), Str("#commit")>>, 0), Map(<<Str("op"), Str("x")>>, 0), UInt(0, 0), CborNull}

\* the entries of an ops array
OpOf(action) == Map(<<Str("action"), Str(action), Str("path"), Str("x"), Str("cid"), CborNull>>, 0)
OpItems ==
  { OpOf("create"), OpOf("update"), OpOf("delete"), OpOf("noop"),
    Map(<<Str("action"), Str("create")>>, 0), Map(<<Str("path"), Str("x")>>, 0),
    CborNull, Str("create") }
OpLists == UNION {[1..n -> OpItems] : n \in 0..MaxOps}
\* { repo, seq, ops } in the shapes a body can take
BodyWith(seq, ops) ==
  Map(<<Str("repo"), Str("did")>> \o (IF seq = NoItem THEN <<>> ELSE <<Str("seq"), seq>>)
        \o (IF ops = NoItem THEN <<>> ELSE <<Str("ops"), ops>>), 0)
CommitBodies ==
  {BodyWith(UInt(MaxSeq, 0), Arr(ops, 0)) : ops \in OpLists}
    \cup {BodyWith(seq, ops) : seq \in {NoItem, UInt(0, 0), UInt(MaxSeq, 0)},
                               ops \in {NoItem, CborNull, UInt(1, 0), OpOf("create")}}
\* bodies without a repo field: an identity event, an empty map, and no maps
OtherBodies ==
  { Map(<<Str("did"), Str("did"), Str("seq"), UInt(MaxSeq, 0)>>, 0), Map(<<>>, 0),
    Arr(<<Str("repo")>>, 0), Str("repo"), UInt(MaxSeq, 0), CborNull }
BodyItems == CommitBodies \cup OtherBodies
FewBodies == {BodyWith(UInt(MaxSeq, 0), Arr(<<OpOf("create")>>, 0)), CborNull,
              Map(<<Str("x"), Chunks(3, <<Text(<<97>>, 0)>>)>>, Indefinite)}

FramePairs ==
  {<<h, b>> : h \in FeatureHeaders \cup NonHeaders, b \in FewBodies}
    \cup {<<h, b>> : h \in PlainHeaders, b \in BodyItems}
FrameOf(h, b) == [kind |-> "frame", bytes |-> encode(h) \o encode(b), header |-> h, body |-> b]

\* ---- arbitrary bytes ----
RECURSIVE SeqsUpTo(_, _)
SeqsUpTo(S, n) ==
  IF n = 0 THEN {<<>>}
  ELSE LET shorter == SeqsUpTo(S, n - 1)
       IN shorter \cup {Append(s, x) : s \in {t \in shorter : Len(t) = n - 1}, x \in S}
\* an integer, a text with a 4-byte length, an indefinite-length array, a
\* float head, the break
ByteAlphabet == {1, 122, 159, 251, 255}
Prefixes(s) == {SubSeq(s, 1, n) : n \in 0..Len(s)}
\* every short sequence over the alphabet, and every truncation of some frames
RawInputs ==
  SeqsUpTo(ByteAlphabet, MaxBytes)
    \cup UNION {Prefixes(encode(CommitHeader) \o encode(b)) : b \in FewBodies}
    \cup UNION {Prefixes(encode(HeaderOf("#commit", x, 0)) \o encode(CborNull)) :
                  x \in {Arr(<<Str("x")>>, 1), Text(<<97, 255>>, 4), UInt(70000, 8)}}
BytesOf(bs) == [kind |-> "frame", bytes |-> bs, header |-> NoItem, body |-> NoItem]

FrameInputs == {FrameOf(p[1], p[2]) : p \in FramePairs} \cup {BytesOf(bs) : bs \in RawInputs}

\* ---- decode of @ipld/dag-cbor ----
\* The items whose encodings the frames are built from.  Every other slice
\* the frames exercised present is either no single well-formed item or an
\* item without a numeric op, and ends decodeFirehoseFrame the same way.
KnownItems == FeatureHeaders \cup PlainHeaders \cup NonHeaders \cup BodyItems \cup FewBodies
\* encoding -> item
Encodings == [bytes \in {encode(it) : it \in KnownItems} |->
                CHOOSE it \in KnownItems : encode(it) = bytes]
NoValue == [k |-> "throw", value |-> NoItem]
decode(bytes, strict) ==
  IF bytes \in DOMAIN Encodings
  THEN IF strict /\ ~InDagCbor(Encodings[bytes]) THEN NoValue
       ELSE [k |-> "value", value |-> Value(Encodings[bytes])]
  ELSE NoValue

\* Uint8Array.prototype.slice(begin, end)
RelativeIndex(i, len) == IF i < 0 THEN Max(len + i, 0) ELSE Min(i, len)
slice(bytes, begin, end) ==
  SubSeq(bytes, RelativeIndex(begin, Len(bytes)) + 1, RelativeIndex(end, Len(bytes)))

ReturnsNull == [k |-> "null"]
\* the promise rejects or the function throws
Rejects == [k |-> "rejects"]
\* the call never returns
NeverReturns == [k |-> "hangs"]

\* the header and body checks of decodeFirehoseFrame, given what decode
\* returned for the two slices
frameFrom(header, body) ==
  CASE header.k = "throw" -> ReturnsNull
    [] ~Truthy(header.value) \/ ~IsNumber(Get(header.value, "op")) -> ReturnsNull
    [] body.k = "throw" -> ReturnsNull
    [] OTHER -> [k |-> "frame", op |-> NumberOf(Get(header.value, "op")),
                 t |-> Get(header.value, "t"), body |-> body.value]

\* the slices at the boundary found, decoded
decodeAt(bytes, boundary, strict) ==
  CASE boundary.k = "hang" -> NeverReturns
    [] boundary.k = "throw" -> ReturnsNull
    [] OTHER -> frameFrom(decode(slice(bytes, 0, boundary.pos), strict),
                          decode(slice(bytes, boundary.pos, Len(bytes)), strict))

\* the try block of decodeFirehoseFrame
decodeFirehoseFrame(bytes, strict) == decodeAt(bytes, findCborBoundary(bytes), strict)

RECURSIVE CommitOps(_)
\* the loop over b.ops: the operations kept, or a TypeError at `o.action`
\* of a null entry
CommitOps(ops) ==
  IF ops = <<>> THEN [k |-> "value", ops |-> <<>>]
  ELSE LET o == Head(ops)
           action == Get(o, "action")
           rest == CommitOps(Tail(ops))
       IN IF (o.major = 7 /\ o.arg \in {22, 23}) \/ rest.k = "throw" THEN [k |-> "throw", ops |-> <<>>]
          ELSE IF action \in {Str("create"), Str("update"), Str("delete")}
          THEN [k |-> "value",
                ops |-> <<[action |-> action, path |-> OrElse(Get(o, "path"), Str("")),
                           cid |-> Get(o, "cid")]>> \o rest.ops]
          ELSE rest

parseCommitEvent(body) ==
  IF ~Truthy(body) \/ ~IsObject(body) THEN ReturnsNull
  ELSE IF ~Has(body, "repo") THEN ReturnsNull
  ELSE LET ops == IF Get(body, "ops").major = 4 THEN CommitOps(Get(body, "ops").items)
                  ELSE [k |-> "value", ops |-> <<>>]
       IN IF ops.k = "throw" THEN Rejects
          ELSE [k |-> "commit", repo |-> Get(body, "repo"),
                seq |-> OrElse(Get(body, "seq"), UInt(0, 0)), ops |-> ops.ops]

\* the event built from a frame; commit is what parseCommitEvent returned,
\* or null when it was not called
eventWith(frame, commit) ==
  IF commit.k = "rejects" THEN Rejects
  ELSE [k |-> "event", seq |-> IF commit.k = "commit" THEN commit.seq ELSE UInt(0, 0),
        type |-> OrElse(frame.t, Str("unknown")), raw |-> frame,
        commit |-> IF commit.k = "commit" THEN commit ELSE ReturnsNull]

eventOf(frame) ==
  IF frame.k # "frame" THEN frame
  ELSE IF frame.t = Str("#commit") /\ Truthy(frame.body)
  THEN eventWith(frame, parseCommitEvent(frame.body))
  ELSE eventWith(frame, ReturnsNull)

\* parseFirehoseEvent after `await decodeFirehoseFrame(data)`
parseFirehoseEvent(bytes, strict) == eventOf(decodeFirehoseFrame(bytes, strict))

\* ---- the calls ----
\* imported: the `await import("@ipld/dag-cbor")` of ensureCborLoaded
\* fulfils; otherwise the promise of the call rejects before the try block.
DecodeFrame(imported) ==
  /\ input.kind = "frame"
  /\ output = NoOutput
  /\ output' = IF imported THEN decodeFirehoseFrame(input.bytes, dagCborStrict) ELSE Rejects
  /\ last' = [act |-> "decodeFirehoseFrame", imported |-> imported,
              boundary |-> findCborBoundary(input.bytes)]
  /\ UNCHANGED <<input, dagCborStrict>>
  /\ UNCHANGED notCodec

ParseEvent(imported) ==
  /\ input.kind = "frame"
  /\ output = NoOutput
  /\ output' = IF imported THEN parseFirehoseEvent(input.bytes, dagCborStrict) ELSE Rejects
  /\ last' = [act |-> "parseFirehoseEvent", imported |-> imported]
  /\ UNCHANGED <<input, dagCborStrict>>
  /\ UNCHANGED notCodec

\* parseCommitEvent on the decoded body of the frame
ParseCommit ==
  /\ input.kind = "frame"
  /\ input.body # NoItem
  /\ output = NoOutput
  /\ output' = parseCommitEvent(Value(input.body))
  /\ last' = [act |-> "parseCommitEvent"]
  /\ UNCHANGED <<input, dagCborStrict>>
  /\ UNCHANGED notCodec

NextFrame ==
  \/ \E imported \in BOOLEAN : DecodeFrame(imported)
  \/ \E imported \in BOOLEAN : ParseEvent(imported)
  \/ ParseCommit

(***************************************************************************)
(* Jetstream events: parseJetstreamEvent, jetstreamTimestampToDate          *)
(***************************************************************************)
\* JSON values as JavaScript sees them; a field a JSON object does not have
\* reads as undefined
JUndefined == [t |-> "undefined"]
JNull == [t |-> "null"]
JNum(n) == [t |-> "number", n |-> n]
JStr(str) == [t |-> "string", s |-> str]
JArray == [t |-> "array"]
JObject(did, time_us, kind) == [t |-> "object", did |-> did, time_us |-> time_us, kind |-> kind]
\* !v is false
JTruthy(v) ==
  CASE v.t \in {"undefined", "null"} -> FALSE
    [] v.t = "number" -> v.n # 0
    [] v.t = "string" -> v.s # ""
    [] OTHER -> TRUE

\* A message text is either no JSON (JSON.parse throws) or denotes a value.
NotJson == [kind |-> "json", valid |-> FALSE, value |-> JUndefined]
JsonOf(v) == [kind |-> "json", valid |-> TRUE, value |-> v]

parseJetstreamEvent(data) ==
  IF ~data.valid THEN ReturnsNull                        \* SyntaxError, caught
  ELSE LET event == data.value
       IN IF event.t = "null" THEN ReturnsNull            \* TypeError at event.did, caught
          ELSE IF event.t # "object" THEN ReturnsNull     \* event.did is undefined
          ELSE IF ~JTruthy(event.did) \/ ~JTruthy(event.time_us) \/ ~JTruthy(event.kind)
          THEN ReturnsNull
          ELSE [k |-> "event", value |-> event]

\* the integer part of a / b, toward zero: what `new Date(x)` keeps of x
Truncate(a, b) == IF a >= 0 THEN a \div b ELSE -((-a) \div b)
\* new Date(timeUs / 1000): the Date's time value in milliseconds
jetstreamTimestampToDate(timeUs) == [k |-> "date", ms |-> Truncate(timeUs, 1000)]

\* the texts and timestamps exercised
JetDids == {JUndefined, JNull, JStr(""), JStr("did:plc:a")}
JetTimes == {JUndefined, JNull, JStr(""), JNum(0), JNum(1), JNum(-MaxUs), JNum(MaxUs)}
JetKinds == {JUndefined, JStr(""), JStr("commit"), JStr("other")}
JetInputs ==
  {NotJson} \cup {JsonOf(v) : v \in {JNull, JNum(0), JNum(1), JStr("did"), JArray}}
    \cup {JsonOf(JObject(d, t, kd)) : d \in JetDids, t \in JetTimes, kd \in JetKinds}
TimeInputs == {[kind |-> "timeUs", value |-> n] : n \in (-MaxUs)..MaxUs}

ParseJetstream ==
  /\ input.kind = "json"
  /\ output = NoOutput
  /\ output' = parseJetstreamEvent(input)
  /\ last' = [act |-> "parseJetstreamEvent"]
  /\ UNCHANGED <<input, dagCborStrict>>
  /\ UNCHANGED notCodec

TimestampToDate ==
  /\ input.kind = "timeUs"
  /\ output = NoOutput
  /\ output' = jetstreamTimestampToDate(input.value)
  /\ last' = [act |-> "jetstreamTimestampToDate"]
  /\ UNCHANGED <<input, dagCborStrict>>
  /\ UNCHANGED notCodec

NextJet == ParseJetstream \/ TimestampToDate

(***************************************************************************)
(* parseCar: the archive decoder (car.ts)                                   *)
(***************************************************************************)
MAX_CAR_SIZE == 52428800

\* the names bound in the module scope of car.ts: its declarations.  The
\* line `export { formatBytes } from "./format"` re-exports the name and
\* binds nothing in the module.
ModuleBindings ==
  {"CarReader", "dagCbor", "ensureModulesLoaded", "MAX_CAR_SIZE", "CAR_SIZE_WARNING",
   "parseCar", "fetchAndParseCar", "getRepoCarUrl", "downloadRepoCar", "getBlockType",
   "truncateCid", "isCarFile", "readFileAsArrayBuffer"}
\* evaluating the identifier does not throw a ReferenceError
Resolves(name) == name \in ModuleBindings

\* (a / b).toFixed(1), in tenths
ToFixed1(a, b) == (a * 20 + b) \div (2 * b)
\* formatBytes of the format utilities: the number shown, in tenths, and the unit
formatBytes(bytes) ==
  IF bytes < 1024 THEN [tenths |-> bytes * 10, unit |-> "B"]
  ELSE IF bytes < 1024 * 1024 THEN [tenths |-> ToFixed1(bytes, 1024), unit |-> "KB"]
  ELSE IF bytes < 1024 * 1024 * 1024 THEN [tenths |-> ToFixed1(bytes, 1024 * 1024), unit |-> "MB"]
  ELSE [tenths |-> ToFixed1(bytes \div 1024, 1024 * 1024), unit |-> "GB"]
NoSize == [tenths |-> 0, unit |-> "none"]

\* cid.toString()
CidString(cid) == <<"cid", cid>>
\* what dagCbor.decode makes of a block: it throws, or returns a value; an
\* object either has a $type field (type is its value) or has none
Undecodable == [t |-> "throws"]
ObjectOf(type) == [t |-> "object", type |-> type]
\* { _raw: true, size: blockBytes.length }
RawMarker(size) == [t |-> "object", type |-> JUndefined, raw |-> TRUE, size |-> size]
decodeBlock(block) ==
  IF block.content = Undecodable THEN RawMarker(block.size) ELSE block.content

IsRecord_AnyObject(decoded) == decoded.t = "object"

\* decoded && typeof decoded === "object" && "$type" in decoded
IsRecord(decoded) == decoded.t = "object" /\ decoded.type # JUndefined

ParsedBlock(block) ==
  [cid |-> CidString(block.cid), bytes |-> block.size, decoded |-> decodeBlock(block)]
RecordOf(pb) ==
  [collection |-> pb.decoded.type, rkey |-> "unknown", cid |-> pb.cid, value |-> pb.decoded]

RECURSIVE ReadBlocks(_)
\* the loop over reader.blocks(): the blocks and the records pushed
ReadBlocks(bs) ==
  IF bs = <<>> THEN [blocks |-> <<>>, records |-> <<>>]
  ELSE LET pb == ParsedBlock(Head(bs))
           rest == ReadBlocks(Tail(bs))
       IN [blocks |-> <<pb>> \o rest.blocks,
           records |-> (IF IsRecord(pb.decoded) THEN <<RecordOf(pb)>> ELSE <<>>) \o rest.records]

ThrowsError(name, actual, maximum) ==
  [k |-> "throws", name |-> name, actual |-> actual, maximum |-> maximum]

\* parseCar after `await ensureModulesLoaded()`
parseCar(in) ==
  IF in.length > MAX_CAR_SIZE
  THEN IF Resolves("formatBytes")
       THEN ThrowsError("Error", formatBytes(in.length), formatBytes(MAX_CAR_SIZE))
       ELSE ThrowsError("ReferenceError", NoSize, NoSize)
  ELSE IF ~in.wellFormed
  THEN ThrowsError("CarReaderError", NoSize, NoSize)       \* CarReader.fromBytes throws
  ELSE [k |-> "parsed", roots |-> [i \in 1..Len(in.roots) |-> CidString(in.roots[i])],
        blocks |-> ReadBlocks(in.blocks).blocks, records |-> ReadBlocks(in.blocks).records]

\* the archives exercised
BlockContents ==
  {Undecodable, ObjectOf(JStr("app.bsky.feed.post")), ObjectOf(JStr("app.bsky.feed.like")),
   ObjectOf(JUndefined), JNull, JNum(1)}
BlockLists ==
  UNION {{[i \in 1..n |-> [cid |-> i, size |-> i, content |-> f[i]]] : f \in [1..n -> BlockContents]} :
           n \in 0..MaxBlocks}
CarLengths == {0, 1, MAX_CAR_SIZE - 1, MAX_CAR_SIZE, MAX_CAR_SIZE + 1, MAX_CAR_SIZE + 1024 * 1024}
CarInputs ==
  {[kind |-> "car", length |-> n, wellFormed |-> w, roots |-> <<0>>, blocks |-> bs] :
     n \in CarLengths, w \in BOOLEAN, bs \in BlockLists}

\* imported: the dynamic imports of ensureModulesLoaded fulfil
ParseCar(imported) ==
  /\ input.kind = "car"
  /\ output = NoOutput
  /\ output' = IF imported THEN parseCar(input) ELSE Rejects
  /\ last' = [act |-> "parseCar", imported |-> imported,
              parsed |-> imported /\ input.length <= MAX_CAR_SIZE]
  /\ UNCHANGED <<input, dagCborStrict>>
  /\ UNCHANGED notCodec

NextCar == \E imported \in BOOLEAN : ParseCar(imported)

(***************************************************************************)
(* detectEncoding: the value classification rules (decode.ts)              *)
(***************************************************************************)
MinBase64Length == 20
TidLength == 13
TimestampLength == 11

\* JavaScript values as JSON gives them.  A string is the sequence of its
\* characters; an object is the function from its own keys to their values.
VUndefined == [t |-> "undefined"]
VNull == [t |-> "null"]
VBool(b) == [t |-> "boolean", b |-> b]
VNum(n) == [t |-> "number", n |-> n]
VStr(chars) == [t |-> "string", chars |-> chars]
VArr(items) == [t |-> "array", items |-> items]
VObj(fields) == [t |-> "object", fields |-> fields]

\* typeof value
TypeOf(v) ==
  CASE v.t \in {"null", "array", "object"} -> "object"
    [] OTHER -> v.t
\* !!value
VTruthy(v) ==
  CASE v.t \in {"undefined", "null"} -> FALSE
    [] v.t = "boolean" -> v.b
    [] v.t = "number" -> v.n # 0
    [] v.t = "string" -> v.chars # <<>>
    [] OTHER -> TRUE
\* obj[name] of an object or an array (an array has no such named key)
Prop(v, name) ==
  IF v.t = "object" /\ name \in DOMAIN v.fields THEN v.fields[name] ELSE VUndefined

Lower ==
  <<"a", "b", "c", "d", "e", "f", "g", "h", "i", "j", "k", "l", "m",
    "n", "o", "p", "q", "r", "s", "t", "u", "v", "w", "x", "y", "z">>
Upper ==
  <<"A", "B", "C", "D", "E", "F", "G", "H", "I", "J", "K", "L", "M",
    "N", "O", "P", "Q", "R", "S", "T", "U", "V", "W", "X", "Y", "Z">>
Range(seq) == {seq[i] : i \in DOMAIN seq}
Digits == {"0", "1", "2", "3", "4", "5", "6", "7", "8", "9"}
\* char.toLowerCase()
toLowerCase(c) ==
  IF c \in Range(Upper) THEN Lower[CHOOSE i \in DOMAIN Upper : Upper[i] = c] ELSE c

\* value.startsWith(prefix)
startsWith(chars, prefix) ==
  Len(chars) >= Len(prefix) /\ SubSeq(chars, 1, Len(prefix)) = prefix
\* every character of chars[from..to] is in class
AllIn(chars, from, to, class) == \A i \in from..to : chars[i] \in class

AtPrefix == <<"a", "t", ":", "/", "/">>
DidPrefix == <<"d", "i", "d", ":">>

isAtUri(value) == TypeOf(value) = "string" /\ startsWith(value.chars, AtPrefix)
isDid(value) == TypeOf(value) = "string" /\ startsWith(value.chars, DidPrefix)

\* the character classes of the isCid pattern under its /i flag
Base58Class == {c \in Range(Lower) \cup Range(Upper) \cup Digits : c # "0"}
Base32Class == Range(Lower) \cup Range(Upper) \cup {"2", "3", "4", "5", "6", "7"}
\* /^(Qm[1-9A-HJ-NP-Za-km-z]{44}|b[a-z2-7]{58,}|bafy[a-z2-7]+)$/i
isCid(value) ==
  /\ TypeOf(value) = "string"
  /\ LET s == value.chars
         n == Len(s)
         low == [i \in 1..n |-> toLowerCase(s[i])]
     IN \/ n = 46 /\ startsWith(low, <<"q", "m">>) /\ AllIn(s, 3, n, Base58Class)
        \/ n >= 59 /\ startsWith(low, <<"b">>) /\ AllIn(s, 2, n, Base32Class)
        \/ n >= 5 /\ startsWith(low, <<"b", "a", "f", "y">>) /\ AllIn(s, 5, n, Base32Class)

isBlobRef(value) ==
  /\ VTruthy(value) /\ TypeOf(value) = "object"
  /\ Prop(value, "$type") = VStr(<<"b", "l", "o", "b">>)
  /\ VTruthy(Prop(value, "ref"))
  /\ TypeOf(Prop(value, "ref")) = "object"

isStrongRef(value) ==
  /\ VTruthy(value) /\ TypeOf(value) = "object"
  /\ TypeOf(Prop(value, "uri")) = "string"
  /\ startsWith(Prop(value, "uri").chars, AtPrefix)
  /\ TypeOf(Prop(value, "cid")) = "string"

\* /^\d{4}-\d{2}-\d{2}T\d{2}:\d{2}:\d{2}/
DatetimePattern ==
  <<Digits, Digits, Digits, Digits, {"-"}, Digits, Digits, {"-"}, Digits, Digits, {"T"},
    Digits, Digits, {":"}, Digits, Digits, {":"}, Digits, Digits>>
isDatetime(value) ==
  /\ TypeOf(value) = "string"
  /\ Len(value.chars) >= Len(DatetimePattern)
  /\ \A i \in DOMAIN DatetimePattern : value.chars[i] \in DatetimePattern[i]

Base64Class == Range(Lower) \cup Range(Upper) \cup Digits \cup {"+", "/"}

isBase64_AnyLength(value) ==
  /\ TypeOf(value) = "string"
  /\ LET s == value.chars
     IN /\ \E k \in 1..Len(s) : AllIn(s, 1, k, Base64Class) /\ AllIn(s, k + 1, Len(s), {"="})
        /\ Len(s) % 4 = 0

\* value.length < 20 is refused; then /^[A-Za-z0-9+/]+=*$/ and length % 4 === 0
isBase64(value) ==
  /\ TypeOf(value) = "string"
  /\ LET s == value.chars
     IN /\ ~(Len(s) < MinBase64Length)
        /\ \E k \in 1..Len(s) : AllIn(s, 1, k, Base64Class) /\ AllIn(s, k + 1, Len(s), {"="})
        /\ Len(s) % 4 = 0

\* Array.isArray(value) && value.every(number in 0..255); JSON gives no
\* Uint8Array
isBytes(value) ==
  /\ value.t = "array"
  /\ \A i \in DOMAIN value.items :
       /\ TypeOf(value.items[i]) = "number"
       /\ value.items[i].n >= 0
       /\ value.items[i].n <= 255

TID_CHARS ==
  <<"2", "3", "4", "5", "6", "7", "a", "b", "c", "d", "e", "f", "g", "h", "i", "j",
    "k", "l", "m", "n", "o", "p", "q", "r", "s", "t", "u", "v", "w", "x", "y", "z">>
\* isTid of records.ts
isTid(str) ==
  /\ Len(str) = TidLength
  /\ \A i \in DOMAIN str : toLowerCase(str[i]) \in Range(TID_CHARS)

detectEncoding_CidBeforeTid(value) ==
  IF isAtUri(value) THEN "at-uri"
  ELSE IF isDid(value) THEN "did"
  ELSE IF isBlobRef(value) THEN "blob-ref"
  ELSE IF isStrongRef(value) THEN "strong-ref"
  ELSE IF isCid(value) THEN "cid"
  ELSE IF TypeOf(value) = "string" /\ isTid(value.chars) THEN "tid"
  ELSE IF isDatetime(value) THEN "datetime"
  ELSE IF isBase64(value) THEN "base64"
  ELSE IF isBytes(value) THEN "bytes"
  ELSE "unknown"

detectEncoding(value) ==
  IF isAtUri(value) THEN "at-uri"
  ELSE IF isDid(value) THEN "did"
  ELSE IF isBlobRef(value) THEN "blob-ref"
  ELSE IF isStrongRef(value) THEN "strong-ref"
  ELSE IF TypeOf(value) = "string" /\ isTid(value.chars) THEN "tid"
  ELSE IF isDatetime(value) THEN "datetime"
  ELSE IF isCid(value) THEN "cid"
  ELSE IF isBase64(value) THEN "base64"
  ELSE IF isBytes(value) THEN "bytes"
  ELSE "unknown"

\* ---- the values classified ----
Repeated(c, n) == [i \in 1..n |-> c]
DatetimeText ==
  <<"2", "0", "2", "4", "-", "0", "1", "-", "0", "2", "T", "0", "3", ":", "0", "4", ":", "0", "5">>
StringPrefixes ==
  {<<>>, AtPrefix, DidPrefix, <<"a", "t", ":", "/">>, <<"A", "T", ":", "/", "/">>,
   <<"b", "a", "f", "y">>, <<"B", "a", "f", "Y">>, <<"b">>, <<"Q", "m">>, DatetimeText,
   SubSeq(DatetimeText, 1, 18)}
FillChars == {"a", "2", "A", "1", "0", "+", "-"}
Paddings == {<<>>, <<"=">>, <<"=", "=">>}
StringInputs ==
  {VStr(p \o Repeated(c, n) \o q) : p \in StringPrefixes, c \in FillChars, n \in 0..MaxFill,
                                    q \in Paddings}
UriTexts == {VStr(AtPrefix \o <<"x">>), VStr(<<"x">>), VNum(1)}
ObjectInputs ==
  {VObj(f) : f \in UNION {[D -> {VNull, VStr(<<"b", "l", "o", "b">>), VObj(<<>>), VNum(0)}
                                \cup UriTexts] : D \in SUBSET {"$type", "ref", "uri", "cid"}}}
ArrayInputs ==
  {VArr(items) : items \in UNION {[1..n -> {VNum(0), VNum(255), VNum(256), VNum(-1),
                                           VStr(<<"a">>), VNull, VArr(<<>>), VObj(<<>>)}] : n \in 0..MaxElems}}
ClassifyInputs ==
  {[kind |-> "value", value |-> v] :
     v \in StringInputs \cup ObjectInputs \cup ArrayInputs
           \cup {VNull, VBool(TRUE), VBool(FALSE), VNum(0), VNum(255), VNum(-1)}}

\* detectEncoding(value)
DetectEncoding ==
  /\ input.kind = "value"
  /\ output = NoOutput
  /\ output' = [k |-> "kind", kind |-> detectEncoding(input.value)]
  /\ last' = [act |-> "detectEncoding"]
  /\ UNCHANGED <<input, dagCborStrict>>
  /\ UNCHANGED notCodec

NextClassify == DetectEncoding

(***************************************************************************)
(* tidToDate: the timestamp of a TID (records.ts)                           *)
(***************************************************************************)
\* TID_CHARS.indexOf(char.toLowerCase()); -1 when the character is absent
indexOf(c) ==
  IF toLowerCase(c) \in Range(TID_CHARS)
  THEN (CHOOSE i \in DOMAIN TID_CHARS : TID_CHARS[i] = toLowerCase(c)) - 1
  ELSE -1

\* A BigInt below 32^n is the sequence of its n base-32 digits, most
\* significant first: `timestamp = timestamp * 32n + BigInt(index)` appends
\* a digit.
RECURSIVE DivideBy(_, _, _)
\* the digits of the quotient of rem * 32^Len(digits) + digits by d
DivideBy(digits, d, rem) ==
  IF digits = <<>> THEN <<>>
  ELSE LET cur == rem * 32 + Head(digits)
       IN <<cur \div d>> \o DivideBy(Tail(digits), d, cur % d)

timestampChars_WholeKey(tid) == tid

\* tid.slice(0, 11)
timestampChars(tid) == SubSeq(tid, 1, Min(Len(tid), TimestampLength))

\* tidToDate: null, or the Date of timestamp / 1000n milliseconds
tidToDate(tid) ==
  IF tid = <<>> \/ Len(tid) # TidLength THEN ReturnsNull
  ELSE LET chars == timestampChars(tid)
       IN IF \E i \in DOMAIN chars : indexOf(chars[i]) = -1 THEN ReturnsNull
          ELSE [k |-> "date",
                msDigits |-> DivideBy([i \in DOMAIN chars |-> indexOf(chars[i])], 1000, 0)]

\* ---- the keys decoded ----
\* the symbols the keys vary over, and the positions where they vary; the
\* other positions hold "k"
TidSymbols == SubSeq(<<"2", "z", "j", "3", "7">>, 1, MaxTidSymbols)
VariedPositions == {10, 11, 12}
TidKeys ==
  {[i \in 1..TidLength |-> IF i \in VariedPositions THEN f[i] ELSE "k"] :
     f \in [VariedPositions -> Range(TidSymbols)]}
TidInputs == {[kind |-> "tids", a |-> a, b |-> b] : a \in TidKeys, b \in TidKeys}

\* tidToDate(a) and tidToDate(b)
TidToDate ==
  /\ input.kind = "tids"
  /\ output = NoOutput
  /\ output' = [k |-> "dates", a |-> tidToDate(input.a), b |-> tidToDate(input.b)]
  /\ last' = [act |-> "tidToDate"]
  /\ UNCHANGED <<input, dagCborStrict>>
  /\ UNCHANGED notCodec

NextTid == TidToDate

(***************************************************************************)
(* fetchAndParseCar: the archive fetch (car.ts)                             *)
(***************************************************************************)
DigitChars == <<"0", "1", "2", "3", "4", "5", "6", "7", "8", "9">>
RECURSIVE DecimalText(_)
\* String(n) of a non-negative integer
DecimalText(n) ==
  IF n < 10 THEN <<DigitChars[n + 1]>> ELSE DecimalText(n \div 10) \o <<DigitChars[(n % 10) + 1]>>
NaN == [nan |-> TRUE]
RECURSIVE LeadingDigits(_, _)
\* the value of the longest prefix of decimal digits, after acc
LeadingDigits(chars, acc) ==
  IF chars = <<>> \/ Head(chars) \notin Digits THEN acc
  ELSE LeadingDigits(Tail(chars),
                     Min(Huge, acc * 10 + (CHOOSE d \in 0..9 : DigitChars[d + 1] = Head(chars))))
\* parseInt(text) of a text without sign, blanks or radix prefix
parseInt(chars) ==
  IF chars = <<>> \/ Head(chars) \notin Digits THEN NaN ELSE [nan |-> FALSE, n |-> LeadingDigits(chars, 0)]
\* a > b of JavaScript numbers: false when a is NaN
GreaterThan(a, b) == ~a.nan /\ a.n > b

\* contentLength && parseInt(contentLength) > MAX_CAR_SIZE
ExceedsLimit_Never(contentLength) == FALSE

ExceedsLimit(contentLength) ==
  VTruthy(contentLength) /\ GreaterThan(parseInt(contentLength.chars), MAX_CAR_SIZE)

\* the responses exercised: response.headers.get("content-length") is null
\* or a text
ContentLengths ==
  {VNull, VStr(<<>>), VStr(<<"a">>), VStr(DecimalText(MAX_CAR_SIZE + 1) \o <<"x">>)}
    \cup {VStr(DecimalText(n)) : n \in {0, MAX_CAR_SIZE - 1, MAX_CAR_SIZE, MAX_CAR_SIZE + 1}}
FetchedCars == {c \in CarInputs : c.length \in {1, MAX_CAR_SIZE + 1} /\ Len(c.blocks) <= MaxFetchedBlocks}
\* fulfils: fetch fulfils with a response; ok: response.ok; reads: the
\* arrayBuffer() promise fulfils with the body, car
FetchInputs ==
  {[kind |-> "fetch", fulfils |-> f, ok |-> ok, contentLength |-> h, reads |-> r, car |-> c] :
     f \in BOOLEAN, ok \in BOOLEAN, h \in ContentLengths, r \in BOOLEAN, c \in FetchedCars}

Awaiting(at) == [k |-> "awaiting", at |-> at]

\* fetchAndParseCar(url) up to `await fetch(url)`
FetchCall ==
  /\ input.kind = "fetch"
  /\ output = NoOutput
  /\ output' = Awaiting("fetch")
  /\ last' = [act |-> "fetchAndParseCar", log |-> <<"fetch">>]
  /\ UNCHANGED <<input, dagCborStrict>>
  /\ UNCHANGED notCodec

\* the fetch promise settles: the status test, the Content-Length test and
\* the call of response.arrayBuffer()
FetchSettled ==
  /\ output = Awaiting("fetch")
  /\ IF ~input.fulfils
     THEN /\ output' = ThrowsError("TypeError", NoSize, NoSize)
          /\ last' = [act |-> "fetchRejected", log |-> last.log]
     ELSE IF ~input.ok
     THEN /\ output' = ThrowsError("HttpError", NoSize, NoSize)
          /\ last' = [act |-> "fetchResolved", log |-> last.log \o <<"response.ok">>]
     ELSE IF ExceedsLimit(input.contentLength)
     THEN /\ output' = IF Resolves("formatBytes")
                       THEN ThrowsError("Error", formatBytes(parseInt(input.contentLength.chars).n),
                                        formatBytes(MAX_CAR_SIZE))
                       ELSE ThrowsError("ReferenceError", NoSize, NoSize)
          /\ last' = [act |-> "fetchResolved", log |-> last.log \o <<"response.ok", "content-length">>]
     ELSE /\ output' = Awaiting("arrayBuffer")
          /\ last' = [act |-> "fetchResolved",
                      log |-> last.log \o <<"response.ok", "content-length", "arrayBuffer">>]
  /\ UNCHANGED <<input, dagCborStrict>>
  /\ UNCHANGED notCodec

\* the arrayBuffer promise settles; `return parseCar(buffer)`
BufferSettled(imported) ==
  /\ output = Awaiting("arrayBuffer")
  /\ IF ~input.reads
     THEN /\ output' = ThrowsError("TypeError", NoSize, NoSize)
          /\ last' = [act |-> "bufferRejected", log |-> last.log]
     ELSE /\ output' = IF imported THEN parseCar(input.car) ELSE Rejects
          /\ last' = [act |-> "bufferResolved", log |-> last.log \o <<"parseCar">>]
  /\ UNCHANGED <<input, dagCborStrict>>
  /\ UNCHANGED notCodec

NextFetch ==
  \/ FetchCall
  \/ FetchSettled
  \/ \E imported \in BOOLEAN : BufferSettled(imported)

(***************************************************************************)
(* decodeValue: the memoized value decoder (decode.ts)                      *)
(***************************************************************************)
notDecode ==
  <<wsState, bufState, wrapper, memoState, idState, comps, nextId, failedLast, recency,
    storedAt, viewState, input, dagCborStrict, viewer>>

\* the names bound in the module scope of decode.ts: its imports and
\* declarations.  `export { formatBytes } from "./format"` binds nothing.
DecodeBindings ==
  {"tidToDate", "isTid", "LRUCache", "decodeCache", "isAtUri", "isDid", "isCid", "isBlobRef",
   "isStrongRef", "isDatetime", "isBase64", "isBytes", "detectEncoding", "decodeBase64",
   "bytesToHex", "bytesToUtf8", "getCacheKey", "decodeValue", "decodeValueInternal"}

\* the text of a value no rule of the model spells out: the operation and
\* its operand
Term(op, of) == [op |-> op, of |-> of]

RECURSIVE JsonLength(_)
\* JSON.stringify(value).length, for texts that need no escapes
JsonLength(v) ==
  CASE v.t = "null" -> 4
    [] v.t = "boolean" -> IF v.b THEN 4 ELSE 5
    [] v.t = "number" -> Len(DecimalText(IF v.n < 0 THEN -v.n ELSE v.n)) + (IF v.n < 0 THEN 1 ELSE 0)
    [] v.t = "string" -> Len(v.chars) + 2
    [] v.t = "array" ->
         LET RECURSIVE Sum(_)
             Sum(items) == IF items = <<>> THEN 0 ELSE JsonLength(Head(items)) + Sum(Tail(items))
         IN 2 + Sum(v.items) + Max(0, Len(v.items) - 1)
    [] v.t = "object" ->
         LET RECURSIVE SumOf(_)
             SumOf(names) ==
               IF names = {} THEN 0
               ELSE LET n == CHOOSE x \in names : TRUE
                    IN Len(n) + 3 + JsonLength(v.fields[n]) + SumOf(names \ {n})
         IN 2 + SumOf(DOMAIN v.fields) + Max(0, Cardinality(DOMAIN v.fields) - 1)

\* `${key ?? ""}`
HintText(key) == IF key = VUndefined THEN <<>> ELSE key.chars
NoKey == [k |-> "null"]

\* getCacheKey: null, or the key text; the JSON text of an object is held
\* as the object it spells
getCacheKey(value, key) ==
  CASE value.t \in {"null", "undefined"} -> NoKey
    [] value.t = "string" ->
         [text |-> <<"s", ":">> \o HintText(key) \o <<":">>
                     \o SubSeq(value.chars, 1, Min(Len(value.chars), KeySliceLength))]
    [] value.t = "number" ->
         [text |-> <<"n", ":">> \o HintText(key) \o <<":">>
                     \o (IF value.n < 0 THEN <<"-">> ELSE <<>>)
                     \o DecimalText(IF value.n < 0 THEN -value.n ELSE value.n)]
    [] value.t = "boolean" ->
         [text |-> <<"b", ":">> \o HintText(key) \o <<":">>
                     \o (IF value.b THEN <<"t", "r", "u", "e">> ELSE <<"f", "a", "l", "s", "e">>)]
    [] OTHER ->
         IF JsonLength(value) < MaxJsonLength
         THEN [text |-> <<"o", ":">> \o HintText(key) \o <<":">>, json |-> value]
         ELSE NoKey

\* value.replace("at://", "")
WithoutAtPrefix(chars) ==
  IF \E i \in 1..(Len(chars) - 4) : SubSeq(chars, i, i + 4) = AtPrefix
  THEN LET i == CHOOSE k \in 1..(Len(chars) - 4) :
                  /\ SubSeq(chars, k, k + 4) = AtPrefix
                  /\ \A j \in 1..(k - 1) : SubSeq(chars, j, j + 4) # AtPrefix
       IN SubSeq(chars, 1, i - 1) \o SubSeq(chars, i + 5, Len(chars))
  ELSE chars
NavPrefix == <<"/", "a", "t", "/">>
NoTarget == [t |-> "undefined"]

DecodedValue(original, type, decoded, displayValue, isNavigable, navigateTo) ==
  [k |-> "decoded", original |-> original, type |-> type, decoded |-> decoded,
   displayValue |-> displayValue, isNavigable |-> isNavigable, navigateTo |-> navigateTo]

\* decodeValueInternal: the DecodedValue, or the exception thrown
decodeValueInternal(value) ==
  LET type == detectEncoding(value)
  IN CASE type = "at-uri" ->
            DecodedValue(value, type, value, value, TRUE,
                         VStr(NavPrefix \o WithoutAtPrefix(value.chars)))
       [] type = "did" ->
            DecodedValue(value, type, value, value, TRUE, VStr(NavPrefix \o value.chars))
       [] type = "strong-ref" ->
            DecodedValue(value, type, VObj([uri |-> Prop(value, "uri"), cid |-> Prop(value, "cid")]),
                         Prop(value, "uri"), TRUE,
                         VStr(NavPrefix \o WithoutAtPrefix(Prop(value, "uri").chars)))
       [] type = "blob-ref" ->
            IF "formatBytes" \in DecodeBindings
            THEN DecodedValue(value, type,
                              VObj([cid |-> Prop(Prop(value, "ref"), "$link"),
                                    mimeType |-> Prop(value, "mimeType"), size |-> Prop(value, "size")]),
                              Term("Blob", <<Prop(value, "mimeType"), Prop(value, "size")>>),
                              FALSE, NoTarget)
            ELSE ThrowsError("ReferenceError", NoSize, NoSize)
       [] type = "tid" ->
            DecodedValue(value, type, tidToDate(value.chars),
                         Term("tid text", <<value, tidToDate(value.chars)>>), FALSE, NoTarget)
       [] type = "datetime" ->
            DecodedValue(value, type, Term("new Date", value), Term("toLocaleString", value),
                         FALSE, NoTarget)
       [] type = "cid" -> DecodedValue(value, type, value, value, FALSE, NoTarget)
       [] type = "base64" ->
            DecodedValue(value, type, Term("decodeBase64", value), Term("utf8 or hex", value),
                         FALSE, NoTarget)
       [] type = "bytes" ->
            DecodedValue(value, type, Term("Uint8Array", value), Term("utf8 or hex", value),
                         FALSE, NoTarget)
       [] OTHER ->
            DecodedValue(value, "unknown", value,
                         IF value.t = "string" THEN value ELSE Term("JSON.stringify", value),
                         FALSE, NoTarget)

\* decodeCache.get(cacheKey) finds a live entry
CacheHit(cacheKey) ==
  cacheKey # NoKey /\ LRUCache_has(lruCache.cache, cacheKey, now)

\* decodeValue: the value returned or the exception thrown
decodeValue(value, key) ==
  IF CacheHit(getCacheKey(value, key)) THEN MapGet(lruCache.cache, getCacheKey(value, key)).value
  ELSE decodeValueInternal(value)

\* decodeValue: the decodeCache it leaves behind
afterDecodeValue(value, key) ==
  LET cacheKey == getCacheKey(value, key)
      afterGet == IF cacheKey = NoKey THEN lruCache.cache
                  ELSE LRUCache_afterGet(lruCache.cache, cacheKey, now)
  IN IF CacheHit(cacheKey) \/ cacheKey = NoKey \/ decodeValueInternal(value).k = "throws"
     THEN afterGet
     ELSE LRUCache_set(afterGet, cacheKey, decodeValueInternal(value), now,
                       lruCache.maxSize, lruCache.ttl)

\* ---- the calls exercised ----
LongText(c) == Repeated("a", KeySliceLength) \o <<c>>
\* the calls: a value and the key hint it is decoded under
DecodeCalls ==
  {[value |-> VStr(<<"c">>), key |-> VStr(<<"a", ":", "b">>)],
   [value |-> VStr(<<"b", ":", "c">>), key |-> VStr(<<"a">>)]}
    \cup {[value |-> v, key |-> VUndefined] :
            v \in {VStr(LongText("x")), VStr(LongText("y")), VStr(AtPrefix \o <<"x">>), VNum(1), VNull,
                   VObj([uri |-> VStr(AtPrefix \o <<"x">>), cid |-> VStr(<<"c">>)]),
                   VObj([uri |-> VStr(Repeated("a", MaxJsonLength))]),
                   VObj(("$type" :> VStr(<<"b", "l", "o", "b">>)) @@ [ref |-> VObj(<<>>)])}}

\* decodeValue(value, key)
DecodeValue(value, key) ==
  /\ output' = decodeValue(value, key)
  /\ lruCache' = [lruCache EXCEPT !.cache = afterDecodeValue(value, key)]
  /\ last' = [act |-> "decodeValue", value |-> value, key |-> key,
              hit |-> CacheHit(getCacheKey(value, key))]
  /\ UNCHANGED now
  /\ UNCHANGED notDecode

\* time passes
DecodeTick ==
  /\ now < MaxTime
  /\ now' = now + 1
  /\ last' = [act |-> "tick"]
  /\ UNCHANGED <<lruCache, output>>
  /\ UNCHANGED notDecode

NextDecode ==
  \/ \E call \in DecodeCalls : DecodeValue(call.value, call.key)
  \/ DecodeTick

(***************************************************************************)
(* Firehose viewer: the onMessage handler of its transport                 *)
(***************************************************************************)
\* the messages a connection delivers: a commit, an identity event, an empty
\* message, a commit whose ops array holds null, a frame whose boundary scan
\* does not end
ViewerMessages ==
  { encode(CommitHeader) \o encode(BodyWith(UInt(MaxSeq, 0), Arr(<<OpOf("create")>>, 0))),
    encode(IdentityHeader) \o encode(Map(<<Str("did"), Str("did"), Str("seq"), UInt(MaxSeq, 0)>>, 0)),
    <<>>,
    encode(CommitHeader) \o encode(BodyWith(UInt(MaxSeq, 0), Arr(<<CborNull>>, 0))),
    <<159, 122, 255, 255, 255, 251>> }

\* the promise of the handler fulfils / the handler is suspended at an await
Fulfils == [k |-> "fulfils"]
Pending == [k |-> "pending"]
\* a handler that never returns keeps the page's only thread
Stuck == output = NeverReturns

\* the part of onMessage after ensureCborLoaded: m.k is how
\* parseFirehoseEvent ends on the message
Deliver(m) ==
  /\ IF m.k = "event"
     THEN /\ eventBuffer' = push(eventBuffer, m.id)
          /\ eventCount' = eventCount + 1
          /\ pushLog' = Append(pushLog, m.id)
     ELSE UNCHANGED <<eventBuffer, eventCount, pushLog>>
  /\ output' = CASE m.k = "hangs" -> NeverReturns
                  [] m.k = "rejects" -> Rejects
                  [] OTHER -> Fulfils

\* A message event of the connection runs onMessage on its data.
\* With `decode` assigned every await of the handler resolves in microtasks of
\* the same task; otherwise ensureCborLoaded suspends it at `await import(...)`.
OnMessage(data) ==
  LET m == [id |-> recvd + 1, k |-> parseFirehoseEvent(data, dagCborStrict).k]
  IN /\ recvd < MaxMsgs
     /\ ~Stuck
     /\ recvd' = recvd + 1
     /\ IF paused
        THEN /\ output' = Fulfils
             /\ UNCHANGED <<awaiting, eventBuffer, eventCount, pushLog>>
        ELSE IF decodeLoaded
             THEN Deliver(m) /\ UNCHANGED awaiting
             ELSE /\ awaiting' = Append(awaiting, m)
                  /\ output' = Pending
                  /\ UNCHANGED <<eventBuffer, eventCount, pushLog>>
     /\ last' = [act |-> "message", id |-> recvd + 1, suspended |-> ~paused /\ ~decodeLoaded,
                 parsed |-> IF ~paused /\ decodeLoaded THEN m.k ELSE "none"]
     /\ UNCHANGED <<paused, decodeLoaded>>
     /\ UNCHANGED notView

\* The import() promise of the longest-waiting handler fulfils, in a task of
\* its own: ensureCborLoaded assigns `decode` and the handler runs to its end.
ImportResolved ==
  /\ awaiting # <<>>
  /\ ~Stuck
  /\ decodeLoaded' = TRUE
  /\ awaiting' = Tail(awaiting)
  /\ Deliver(Head(awaiting))
  /\ last' = [act |-> "imported", id |-> Head(awaiting).id, parsed |-> Head(awaiting).k]
  /\ UNCHANGED <<paused, recvd>>
  /\ UNCHANGED notView

\* The import() promise rejects (the module cannot be loaded): the handler's
\* promise rejects and its message is lost.
ImportRejected ==
  /\ awaiting # <<>>
  /\ ~Stuck
  /\ ~decodeLoaded
  /\ awaiting' = Tail(awaiting)
  /\ output' = Rejects
  /\ last' = [act |-> "importFailed", id |-> Head(awaiting).id]
  /\ UNCHANGED <<paused, decodeLoaded, eventBuffer, eventCount, recvd, pushLog>>
  /\ UNCHANGED notView

togglePause ==
  /\ ~Stuck
  /\ paused' = ~paused
  /\ last' = [act |-> "togglePause"]
  /\ UNCHANGED <<decodeLoaded, awaiting, eventBuffer, eventCount, recvd, pushLog, output>>
  /\ UNCHANGED notView

clearEvents ==
  /\ ~Stuck
  /\ eventBuffer' = clear(eventBuffer)
  /\ eventCount' = 0
  /\ last' = [act |-> "clearEvents"]
  /\ UNCHANGED <<paused, decodeLoaded, awaiting, recvd, pushLog, output>>
  /\ UNCHANGED notView

NextView ==
  \/ \E data \in ViewerMessages : OnMessage(data)
  \/ ImportResolved
  \/ ImportRejected
  \/ togglePause
  \/ clearEvents

(***************************************************************************)
(* Stream viewers: connect, disconnect, onMessage and the throttled render *)
(* of FirehoseViewer.svelte and LabelExplorer.svelte                       *)
(***************************************************************************)
notStream == <<wsState, bufState, coState, lruState, viewState, codecState>>

\* the two viewers: the firehose viewer decodes binary frames in an async
\* handler, the label explorer parses JSON texts and resolves its DID
\* filter before it connects
StreamKinds == {"firehose", "labels"}

\* what a transport delivers to the viewer of the kind
StreamMessages(kind) ==
  IF kind = "firehose"
  THEN {[bytes |-> encode(CommitHeader) \o encode(BodyWith(UInt(MaxSeq, 0), Arr(<<OpOf("create")>>, 0)))],
        [bytes |-> <<>>],
        [bytes |-> <<159, 122, 255, 255, 255, 251>>]}
  ELSE {[json |-> JsonOf(JObject(JStr("did:plc:a"), JNum(1), JStr("commit")))], [json |-> NotJson]}
\* how the parse of the message ends: event, null, rejects or hangs
ParsedAs(kind, data) ==
  IF kind = "firehose" THEN parseFirehoseEvent(data.bytes, TRUE).k
  ELSE parseJetstreamEvent(data.json).k

NoController == 0
IdleStream ==
  viewer = [kind |-> "firehose", wsController |-> NoController, live |-> {}, created |-> 0,
            resolving |-> 0, paused |-> FALSE, decodeLoaded |-> FALSE, suspended |-> <<>>,
            received |-> 0, pushes |-> <<>>, disconnected |-> FALSE,
            renderScheduled |-> FALSE, timers |-> 0, lastRenderTime |-> 0, clock |-> 0,
            rendered |-> 0, stuck |-> FALSE]

\* createReconnectingWebSocket(url, ...) assigned to wsController, then
\* wsController.connect(): v with the new transport live
WithNewTransport(v) ==
  [v EXCEPT !.wsController = v.created + 1, !.live = v.live \cup {v.created + 1},
            !.created = v.created + 1]
\* if (wsController) wsController.disconnect()
WithoutCurrent(v) == [v EXCEPT !.live = v.live \ {v.wsController}]

\* doRender at time t: events = eventBuffer.getRecent(...)
doRender(v, t) == [v EXCEPT !.lastRenderTime = t, !.clock = t, !.rendered = Len(v.pushes)]

scheduleRender(v) ==
  IF v.renderScheduled THEN v
  ELSE IF v.clock - v.lastRenderTime >= RenderInterval THEN doRender(v, v.clock)
  ELSE [v EXCEPT !.renderScheduled = TRUE, !.timers = v.timers + 1]

\* the rest of onMessage once the parse of message m has ended
Handled(v, m) ==
  CASE m.k = "event" ->
         scheduleRender([v EXCEPT !.pushes = Append(v.pushes,
                            [id |-> m.id, pausedAtReceipt |-> m.paused,
                             afterDisconnect |-> v.disconnected])])
    [] m.k = "hangs" -> [v EXCEPT !.stuck = TRUE]
    [] OTHER -> v

\* connect() of the viewer; filter: didFilter.trim() is not empty (label
\* explorer), which makes connect await resolveToDidString
ViewerConnect(filter) ==
  /\ ~viewer.stuck
  /\ viewer.created + viewer.resolving < MaxTransports
  /\ filter => viewer.kind = "labels"
  /\ viewer' = IF filter
               THEN [WithoutCurrent(viewer) EXCEPT !.resolving = viewer.resolving + 1,
                                                   !.disconnected = FALSE]
               ELSE [WithNewTransport(WithoutCurrent(viewer)) EXCEPT !.disconnected = FALSE]
  /\ last' = [act |-> "viewerConnect", filter |-> filter]
  /\ UNCHANGED notStream

\* resolveToDidString settles for the connect() waiting longest
ResolveSettled(resolved) ==
  /\ ~viewer.stuck
  /\ viewer.resolving > 0
  /\ viewer' = IF resolved
               THEN [WithNewTransport(viewer) EXCEPT !.resolving = viewer.resolving - 1]
               ELSE [viewer EXCEPT !.resolving = viewer.resolving - 1]
  /\ last' = [act |-> "resolveSettled", resolved |-> resolved]
  /\ UNCHANGED notStream

\* disconnect() of the viewer
ViewerDisconnect ==
  /\ ~viewer.stuck
  /\ viewer' = [WithoutCurrent(viewer) EXCEPT !.wsController = NoController, !.disconnected = TRUE]
  /\ last' = [act |-> "viewerDisconnect"]
  /\ UNCHANGED notStream

\* a live transport delivers a message: onMessage(data)
StreamMessage(transport, data) ==
  LET m == [id |-> viewer.received + 1, k |-> ParsedAs(viewer.kind, data), paused |-> viewer.paused]
      v == [viewer EXCEPT !.received = viewer.received + 1]
  IN /\ ~viewer.stuck
     /\ transport \in viewer.live
     /\ viewer.received < MaxStreamMsgs
     /\ viewer' = IF viewer.paused THEN v
                  ELSE IF viewer.kind = "firehose" /\ ~viewer.decodeLoaded
                  THEN [v EXCEPT !.suspended = Append(v.suspended, m)]
                  ELSE Handled(v, m)
     /\ last' = [act |-> "streamMessage", from |-> transport, id |-> m.id]
     /\ UNCHANGED notStream

\* the import() of ensureCborLoaded settles for the handler suspended longest
StreamImportSettled(imported) ==
  /\ ~viewer.stuck
  /\ viewer.suspended # <<>>
  /\ imported \/ ~viewer.decodeLoaded
  /\ viewer' = IF imported
               THEN Handled([viewer EXCEPT !.suspended = Tail(viewer.suspended), !.decodeLoaded = TRUE],
                            Head(viewer.suspended))
               ELSE [viewer EXCEPT !.suspended = Tail(viewer.suspended)]
  /\ last' = [act |-> "streamImport", imported |-> imported, id |-> Head(viewer.suspended).id]
  /\ UNCHANGED notStream

\* the setTimeout callback of scheduleRender runs, no earlier than its delay
RenderTimer ==
  /\ ~viewer.stuck
  /\ viewer.timers > 0
  /\ viewer' = doRender([viewer EXCEPT !.renderScheduled = FALSE, !.timers = viewer.timers - 1],
                        Max(viewer.clock, viewer.lastRenderTime + RenderInterval))
  /\ last' = [act |-> "renderTimer"]
  /\ UNCHANGED notStream

StreamTogglePause ==
  /\ ~viewer.stuck
  /\ viewer' = [viewer EXCEPT !.paused = ~viewer.paused]
  /\ last' = [act |-> "streamTogglePause"]
  /\ UNCHANGED notStream

\* time passes while no render timer is due
StreamTick ==
  /\ viewer.clock < MaxClock
  /\ viewer.timers > 0 => viewer.clock < viewer.lastRenderTime + RenderInterval
  /\ viewer' = [viewer EXCEPT !.clock = viewer.clock + 1]
  /\ last' = [act |-> "streamTick"]
  /\ UNCHANGED notStream

NextStream ==
  \/ \E filter \in BOOLEAN : ViewerConnect(filter)
  \/ \E resolved \in BOOLEAN : ResolveSettled(resolved)
  \/ ViewerDisconnect
  \/ \E transport \in 1..MaxTransports, data \in StreamMessages(viewer.kind) :
       StreamMessage(transport, data)
  \/ \E imported \in BOOLEAN : StreamImportSettled(imported)
  \/ RenderTimer
  \/ StreamTogglePause
  \/ StreamTick

(***************************************************************************)
(* Initial states                                                          *)
(***************************************************************************)
\* the transport as the other specifications hold it: constructed, never used
IdleWS ==
  /\ socket = Null
  /\ sockState = [i \in SockIds |-> "NONE"]
  /\ retryCount = 0
  /\ retryTimeout = Null
  /\ timers = [t \in TimerIds |-> 0]
  /\ intentionalClose = FALSE
  /\ urlValid = TRUE
  /\ options = [initialDelay |-> Undefined, maxDelay |-> Undefined]
  /\ scheduled = 0
  /\ streak = 0
  /\ fresh = FALSE
  /\ disconnected = FALSE
  /\ used = 0
  /\ owed = FALSE
  /\ attempts = 0
  /\ everOpened = FALSE

\* the buffer as the other specifications hold it: constructed, never used
IdleBuf ==
  /\ eventBuffer = EventBuffer(MAX_EVENTS)
  /\ hist = <<>>
  /\ resized = FALSE

\* the coalescers as the other specifications hold them: created, never used
IdleCo ==
  /\ wrapper = "memoizeAsync"
  /\ now = 0
  /\ cache = <<>>
  /\ inflight = [k \in Keys |-> 0]
  /\ storage = [k \in Keys |-> Absent]
  /\ inflightResolutions = [k \in Keys |-> 0]
  /\ comps = {}
  /\ nextId = 1
  /\ failedLast = [k \in Keys |-> FALSE]

\* the standalone cache as the other specifications hold it: constructed, never used
IdleLRU ==
  /\ lruCache = LRUCache(1, 1)
  /\ recency = <<>>
  /\ storedAt = [k \in LruKeys |-> Absent]

\* the viewer as the other specifications hold it: mounted, nothing received
IdleView ==
  /\ paused = FALSE
  /\ decodeLoaded = FALSE
  /\ awaiting = <<>>
  /\ eventCount = 0
  /\ recvd = 0
  /\ pushLog = <<>>

IdleCodec ==
  /\ input = NoInput
  /\ output = NoOutput
  /\ dagCborStrict = TRUE

InitWS ==
  /\ IdleStream
  /\ socket = Null
  /\ sockState = [i \in SockIds |-> "NONE"]
  /\ retryCount = 0
  /\ retryTimeout = Null
  /\ timers = [t \in TimerIds |-> 0]
  /\ intentionalClose = FALSE
  /\ urlValid \in BOOLEAN
  /\ options \in {[initialDelay |-> Undefined, maxDelay |-> m] : m \in {Undefined, LowMaxDelay}}
  /\ scheduled = 0
  /\ streak = 0
  /\ fresh = FALSE
  /\ last = NoStep
  /\ disconnected = FALSE
  /\ used = 0
  /\ owed = FALSE
  /\ attempts = 0
  /\ everOpened = FALSE
  /\ IdleCodec

InitBuf ==
  /\ eventBuffer \in {EventBuffer(n) : n \in 1..MaxCap}
  /\ hist = <<>>
  /\ resized = FALSE
  /\ last = NoStep
  /\ IdleWS
  /\ IdleCo
  /\ IdleLRU
  /\ IdleView
  /\ IdleStream
  /\ IdleCodec

InitCo ==
  /\ wrapper \in {"memoizeAsync", "dedupFetch", "resolveIdentity"}
  /\ now = 0
  /\ cache = <<>>
  /\ inflight = [k \in Keys |-> 0]
  /\ storage = [k \in Keys |-> Absent]
  /\ inflightResolutions = [k \in Keys |-> 0]
  /\ comps = {}
  /\ nextId = 1
  /\ failedLast = [k \in Keys |-> FALSE]
  /\ last = NoStep
  /\ IdleWS
  /\ IdleBuf
  /\ IdleLRU
  /\ IdleView
  /\ IdleStream
  /\ IdleCodec

InitLRU ==
  /\ lruCache \in {LRUCache(m, lruTtl) : m \in 1..MaxLruSize}
  /\ recency = <<>>
  /\ storedAt = [k \in LruKeys |-> Absent]
  /\ last = NoStep
  /\ IdleWS
  /\ IdleBuf
  /\ IdleCo
  /\ IdleView
  /\ IdleStream
  /\ IdleCodec

InitView ==
  /\ IdleView
  /\ IdleStream
  /\ last = NoStep
  /\ IdleWS
  /\ IdleBuf
  /\ IdleCo
  /\ IdleLRU
  /\ IdleCodec

InitJet ==
  /\ input \in JetInputs \cup TimeInputs
  /\ output = NoOutput
  /\ dagCborStrict = TRUE
  /\ last = NoStep
  /\ IdleWS
  /\ IdleBuf
  /\ IdleCo
  /\ IdleLRU
  /\ IdleView
  /\ IdleStream

InitClassify ==
  /\ input \in ClassifyInputs
  /\ output = NoOutput
  /\ dagCborStrict = TRUE
  /\ last = NoStep
  /\ IdleWS
  /\ IdleBuf
  /\ IdleCo
  /\ IdleLRU
  /\ IdleView
  /\ IdleStream

InitTid ==
  /\ input \in TidInputs
  /\ output = NoOutput
  /\ dagCborStrict = TRUE
  /\ last = NoStep
  /\ IdleWS
  /\ IdleBuf
  /\ IdleCo
  /\ IdleLRU
  /\ IdleView
  /\ IdleStream

InitFetch ==
  /\ input \in FetchInputs
  /\ output = NoOutput
  /\ dagCborStrict = TRUE
  /\ last = NoStep
  /\ IdleWS
  /\ IdleBuf
  /\ IdleCo
  /\ IdleLRU
  /\ IdleView
  /\ IdleStream

InitDecode ==
  /\ lruCache = LRUCache(decodeMaxSize, decodeTtl)
  /\ recency = <<>>
  /\ storedAt = [k \in LruKeys |-> Absent]
  /\ last = NoStep
  /\ IdleWS
  /\ IdleBuf
  /\ IdleCo
  /\ IdleView
  /\ IdleStream
  /\ IdleCodec

InitStream ==
  /\ \E kind \in StreamKinds :
       viewer = [kind |-> kind, wsController |-> NoController, live |-> {}, created |-> 0,
                 resolving |-> 0, paused |-> FALSE, decodeLoaded |-> FALSE, suspended |-> <<>>,
                 received |-> 0, pushes |-> <<>>, disconnected |-> FALSE,
                 renderScheduled |-> FALSE, timers |-> 0, lastRenderTime |-> 0, clock |-> 0,
                 rendered |-> 0, stuck |-> FALSE]
  /\ IdleView
  /\ last = NoStep
  /\ IdleWS
  /\ IdleBuf
  /\ IdleCo
  /\ IdleLRU
  /\ IdleCodec

InitCar ==
  /\ input \in CarInputs
  /\ output = NoOutput
  /\ dagCborStrict = TRUE
  /\ last = NoStep
  /\ IdleWS
  /\ IdleBuf
  /\ IdleCo
  /\ IdleLRU
  /\ IdleView
  /\ IdleStream

InitFrame ==
  /\ input \in FrameInputs
  /\ output = NoOutput
  /\ dagCborStrict \in BOOLEAN
  /\ last = NoStep
  /\ IdleWS
  /\ IdleBuf
  /\ IdleCo
  /\ IdleLRU
  /\ IdleView
  /\ IdleStream

(***************************************************************************)
(* Claims about the transport                                              *)
(***************************************************************************)
LiveSockets == {s \in SockIds : sockState[s] \in {"CONNECTING", "OPEN"}}

\* C1: after disconnect() returns and until the caller calls connect() again,
\* no retry timer is pending and no socket of the transport is CONNECTING or
\* OPEN (a new socket would be), whatever interleaving preceded the disconnect.
C1_DisconnectLeavesNothingPending ==
  disconnected => (PendingTimers = {} /\ LiveSockets = {})

\* C2: the close event of a socket that disconnect() closed never schedules a
\* retry timer and never increments retryCount, also when it is delivered
\* after the caller has called connect() again.
C2_IntentionalCloseNeverRetries ==
  (last.act = "close" /\ last.was = "CLOSING")
     => (last.added = 0 /\ last.countAfter = last.countBefore)

\* an unintentional close with retry budget left schedules exactly one timer
C3_CloseSchedulesOneTimer ==
  (last.act = "close" /\ last.was # "CLOSING" /\ last.usedBefore < maxRetries)
     => (last.added = 1 /\ last.countAfter = last.countBefore + 1)

\* C3 as stated: an unintentional close with fewer than maxRetries retries used
\* schedules exactly one retry timer, and the firing of a retry timer makes a
\* new connection attempt.
C3_TimerFiringAlwaysAttempts ==
  /\ C3_CloseSchedulesOneTimer
  /\ last.act = "timer" => last.created

\* C3 amended: an unintentional close with fewer than maxRetries retries used
\* schedules exactly one retry timer; the firing of a retry timer makes a new
\* connection attempt exactly when the transport's socket is not already
\* CONNECTING or OPEN; and, the timer eventually firing, every such close is
\* followed by a new connection attempt unless disconnect() is called first.
C3_RetryAfterUnintentionalClose ==
  /\ [](C3_CloseSchedulesOneTimer /\ (last.act = "timer" => (last.created <=> ~last.liveBefore)))
  /\ (owed ~> ~owed)

\* the retry timer of an unintentional close fired and created the next socket
C3_Witness ==
  /\ last.act = "timer" /\ last.created
  /\ ~disconnected /\ used >= 1 /\ ~owed

\* C4: at most one socket created by the transport is CONNECTING or OPEN.
C4_AtMostOneLiveSocket == Cardinality(LiveSockets) <= 1

\* a connect() (caller or retry timer) ran while a socket was live, next to a
\* socket that is still closing
C4_Witness ==
  /\ last.act \in {"timer", "connect"} /\ last.liveBefore
  /\ \E s \in SockIds : sockState[s] = "CLOSING"

\* C5: while no attempt has ever reached OPEN, at most maxRetries attempts
\* follow the caller's connect(), and once the budget is used up and the last
\* attempt has closed, no retry timer is pending and no socket is live.
C5_RetriesBoundedByBudget ==
  ~everOpened =>
     /\ attempts <= maxRetries
     /\ (attempts = maxRetries /\ last.act = "close" /\ LiveSockets = {} /\ ~disconnected)
           => PendingTimers = {}

\* the current socket, if any, is CONNECTING or OPEN
SocketLive == socket # Null /\ sockState[socket] \in {"CONNECTING", "OPEN"}

\* C14: a socket reaching OPEN resets retryCount to 0, so the next unintentional
\* close is retried after initialDelay and with the full maxRetries budget.
C14_OpenResetsBackoff ==
  /\ last.act = "open" => retryCount = 0
  /\ (last.act = "close" /\ last.was # "CLOSING" /\ last.fresh /\ maxRetries > 0)
        => (last.added = 1 /\ last.delay = initialDelay /\ last.countBefore = 0)

\* C15 as stated: the retry scheduled after the k-th consecutive unintentional close
\* since the last successful open or caller connect is delayed by
\* min(initialDelay * 2^k, maxDelay).
C15_DelayByClosesSinceConnect ==
  (last.act = "close" /\ last.was # "CLOSING" /\ last.added = 1)
     => last.delay = Min(initialDelay * Pow2(last.streakBefore), maxDelay)

\* the delays of the default options, in milliseconds
DefaultDelays == <<1000, 2000, 4000, 8000, 16000, 30000, 30000, 30000, 30000, 30000>>

\* C15 amended: the k-th retry scheduled since the last successful open or
\* disconnect() (k = 0, 1, 2, ...) is delayed by min(initialDelay * 2^k, maxDelay);
\* with the defaults the delays are 1s, 2s, 4s, 8s, 16s, 30s, 30s, ..., never
\* decreasing and never above maxDelay.
C15_DelayByRetriesSinceReset ==
  /\ scheduled = retryCount
  /\ (last.act = "close" /\ last.added = 1) =>
        /\ last.delay = Min(initialDelay * Pow2(last.scheduledBefore), maxDelay)
        /\ last.delay <= maxDelay
        /\ last.scheduledBefore > 0 =>
              last.delay >= Min(initialDelay * Pow2(last.scheduledBefore - 1), maxDelay)
  /\ \A k \in 0..(DEFAULT_MAX_RETRIES - 1) :
        Backoff(k, DEFAULT_INITIAL_DELAY, DEFAULT_MAX_DELAY) = DefaultDelays[k + 1]

\* a retry was scheduled with the delay capped at maxDelay
C15_Witness ==
  /\ last.act = "close" /\ last.added = 1 /\ last.scheduledBefore > 0
  /\ last.delay = maxDelay /\ initialDelay * Pow2(last.scheduledBefore) > maxDelay

\* C16: connect() called while the current socket is CONNECTING or OPEN creates no
\* socket and leaves the socket, retryCount, the pending retry timers and the
\* intentional-close flag unchanged.
C16_ConnectWhileLiveIsNoOp ==
  [][(SocketLive /\ last'.act = "connect") => UNCHANGED wsVars]_vars

\* connect() has just returned early while a retry timer was pending
C16_Witness ==
  /\ last.act = "connect" /\ last.liveBefore /\ ~last.created
  /\ PendingTimers # {} /\ retryCount > 0

isConnected == socket # Null /\ sockState[socket] = "OPEN"
getRetryCount == retryCount

\* the sink callback the step just taken invoked, with getRetryCount() as read inside it
CallbackSeen ==
  IF last.act = "close" THEN [name |-> "onClose", retryCount |-> last.countBefore]
  ELSE IF last.act = "open" THEN [name |-> "onOpen", retryCount |-> retryCount]
  ELSE IF last.act = "error" \/ (last.act \in {"connect", "timer"} /\ last.threw)
       THEN [name |-> "onError", retryCount |-> retryCount]
  ELSE [name |-> "none", retryCount |-> retryCount]

\* what the consumer sees after a step: the callback, isConnected(), getRetryCount()
Observation ==
  [isConnected |-> isConnected, getRetryCount |-> getRetryCount, callback |-> CallbackSeen]

\* the transport will still connect by itself: a retry is pending or under way
Retrying == PendingTimers # {} \/ LiveSockets # {}

\* the budget is used up: the close just delivered was not retried, nothing is pending
GaveUp ==
  /\ last.act = "close" /\ last.added = 0
  /\ ~intentionalClose /\ retryCount >= maxRetries
  /\ PendingTimers = {} /\ LiveSockets = {}

\* what the consumer sees when the transport gave up
GaveUpObservation ==
  [isConnected |-> FALSE, getRetryCount |-> maxRetries,
   callback |-> [name |-> "onClose", retryCount |-> maxRetries]]

\* C17: after the retry budget is used up the consumer observes a 'gave up' state
\* that differs from what it observes while a retry is pending or under way.
C17_GaveUpIsObservable ==
  /\ GaveUp => Observation = GaveUpObservation
  /\ Retrying => Observation # GaveUpObservation

\* C18: a socket error event is reported through onError and changes nothing else:
\* the socket, retryCount, the pending retry timers and the intentional-close flag
\* are unchanged, so a close that follows is retried as it would have been.
C18_ErrorChangesNothing ==
  [][last'.act = "error" => (UNCHANGED wsVars /\ CallbackSeen'.name = "onError")]_vars

\* an error event was reported while the socket was live and retries had been used
C18_Witness ==
  /\ last.act = "error" /\ SocketLive
  /\ retryCount > 0 /\ PendingTimers # {}

(***************************************************************************)
(* Claims about the buffer                                                 *)
(***************************************************************************)
LastN(seq, n) == SubSeq(seq, Len(seq) - n + 1, Len(seq))

\* C8: on a buffer whose capacity N >= 1 was not changed, after M pushes since
\* creation or the last clear getAll() is exactly the last min(M, N) pushed
\* items in push order.
C8_GetAllIsLastPushed ==
  ~resized => getAll(eventBuffer) = LastN(hist, Min(Len(hist), eventBuffer.maxSize))

\* more items were pushed than the buffer holds, the last by a single push
C8_Witness ==
  /\ ~resized /\ last.act = "push"
  /\ Len(hist) > eventBuffer.maxSize /\ eventBuffer.maxSize >= 2

C9_CountInRange == eventBuffer.count >= 0 /\ eventBuffer.count <= eventBuffer.maxSize

C9_PushEffect ==
  last.act = "push" =>
    LET b == last.before
    IN IF b.count = b.maxSize
       THEN /\ eventBuffer.count = b.count
            /\ eventBuffer.tail = (b.tail + 1) % b.maxSize
            /\ eventBuffer.buffer[b.tail] = last.item
            /\ getAll(eventBuffer) = Tail(getAll(b)) \o <<last.item>>
       ELSE /\ eventBuffer.count = b.count + 1
            /\ eventBuffer.tail = b.tail

\* C9: after any sequence of push, pushMany, clear and setMaxSize, 0 <= count
\* <= N; a push at count = N keeps count, overwrites the oldest element and
\* advances the tail by one modulo N; a push at count < N adds one to count and
\* keeps the tail.
C9_CountBoundedAndPushOverwrites == C9_CountInRange /\ C9_PushEffect

\* a push onto a full buffer whose capacity was changed by setMaxSize
C9_Witness ==
  /\ last.act = "push" /\ last.before.count = last.before.maxSize
  /\ resized /\ eventBuffer.maxSize >= 2

\* C19: setMaxSize(newSize) keeps exactly the most recent min(newSize, count) items
\* in their order and drops only the oldest excess; afterwards the buffer is a
\* buffer of capacity newSize: count <= newSize, and later pushes and getAll follow
\* the overwrite-oldest rule for newSize.
C19_ResizeKeepsMostRecent ==
  /\ last.act = "setMaxSize" =>
        /\ eventBuffer.maxSize = last.size
        /\ eventBuffer.count = Min(last.size, last.before.count)
        /\ getAll(eventBuffer) = LastN(getAll(last.before), Min(last.size, last.before.count))
        /\ eventBuffer.head = (eventBuffer.tail + eventBuffer.count) % last.size
  /\ (resized /\ last.act \in {"push", "pushMany"}) =>
        LET pushed == IF last.act = "push" THEN <<last.item>> ELSE last.items
            all == getAll(last.before) \o pushed
        IN /\ eventBuffer.maxSize = last.before.maxSize
           /\ getAll(eventBuffer) = LastN(all, Min(Len(all), eventBuffer.maxSize))
  /\ resized => eventBuffer.count <= eventBuffer.maxSize

\* setMaxSize has just shrunk a buffer that had wrapped around below its count
C19_Witness ==
  /\ last.act = "setMaxSize" /\ last.size < last.before.count
  /\ last.before.tail > 0 /\ last.size >= 2

\* C20: in every reachable buffer state and for every n >= 0, getRecent(n) is the
\* suffix of getAll() of length min(n, count), oldest first, and the call leaves
\* the buffer unchanged.
C20_GetRecentIsSuffixOfGetAll ==
  /\ \A n \in 0..(MaxCap + 1) :
       getRecent(eventBuffer, n) = LastN(getAll(eventBuffer), Min(n, eventBuffer.count))
  /\ last.act = "getRecent" =>
       /\ last.ret = LastN(getAll(eventBuffer), Min(last.n, eventBuffer.count))
       /\ Len(last.ret) = Min(last.n, eventBuffer.count)

\* getRecent returned a proper, non-empty suffix of a buffer that had wrapped around
C20_Witness ==
  /\ last.act = "getRecent" /\ last.n >= 1 /\ last.n < eventBuffer.count
  /\ eventBuffer.tail > 0 /\ Len(last.ret) = last.n

(***************************************************************************)
(* Claims about the coalescers                                             *)
(***************************************************************************)
InflightOf(key) == IF wrapper = "resolveIdentity" THEN inflightResolutions[key] ELSE inflight[key]
CacheOf == IF wrapper = "resolveIdentity" THEN storage ELSE cache

C6_AtMostOneOutstanding == \A key \in Keys : Cardinality(PendingFor(key)) <= 1

\* C6 as stated: per key at most one computation is outstanding, and a call
\* made while one is pending starts none and receives the outcome of the pending one.
C6_CallJoinsPending ==
  /\ C6_AtMostOneOutstanding
  /\ (last.act = "call" /\ last.pendingBefore # {})
        => (~last.started /\ last.got = "pending" /\ last.ret \in last.pendingBefore)

\* C6 amended: per key at most one computation is outstanding; a call made
\* while one is pending starts none; under memoizeAsync and dedupFetch it receives
\* the outcome of the pending one, under resolveIdentity it does too unless the
\* identity cache holds an unexpired entry for the key, which it then returns.
C6_CallJoinsPendingOrCache ==
  /\ C6_AtMostOneOutstanding
  /\ (last.act = "call" /\ last.pendingBefore # {})
        => /\ ~last.started
           /\ \/ last.got = "pending" /\ last.ret \in last.pendingBefore
              \/ wrapper = "resolveIdentity" /\ last.got = "cached"

\* a call arrived while the key's computation was pending and joined it
C6_Witness ==
  /\ last.act = "call" /\ last.pendingBefore # {}
  /\ last.got = "pending" /\ comps # {}

C7_FailureClearsInflight ==
  last.act = "fail" => (InflightOf(last.key) = 0 /\ CacheOf = last.cacheBefore)

\* C7 as stated: a failed computation leaves its key out of the in-flight map
\* and stores nothing, and the first call for the key after the failure starts
\* a fresh computation.
C7_CallAfterFailureStartsFresh ==
  /\ C7_FailureClearsInflight
  /\ (last.act = "call" /\ last.afterFailure) => (last.started /\ last.got = "fresh")

\* C7 amended: a failed computation leaves its key out of the in-flight map
\* and stores nothing; the first call for the key after the failure never
\* receives the old error: it starts a fresh computation, or, under
\* resolveIdentity, returns an unexpired identity-cache entry for the key.
C7_CallAfterFailureNeverReplays ==
  /\ C7_FailureClearsInflight
  /\ (last.act = "call" /\ last.afterFailure)
        => \/ last.started /\ last.got = "fresh"
           \/ wrapper = "resolveIdentity" /\ last.got = "cached"

\* the first call after a failure started a new computation
C7_Witness ==
  /\ last.act = "call" /\ last.afterFailure
  /\ last.started /\ last.ret \in PendingFor(last.key)

\* C28: a key is in the in-flight map only while its computation is started
\* and not settled: the promise the map holds for a key is one of the key's
\* pending computations, the step that settles a computation (success or
\* failure) removes its key, the map is empty once nothing is pending, and
\* a call that is answered from the map gets a computation that was pending.
C28_InflightOnlyWhilePending ==
  /\ \A key \in Keys : InflightOf(key) # 0 => InflightOf(key) \in PendingFor(key)
  /\ comps = {} => \A key \in Keys : InflightOf(key) = 0
  /\ last.act \in {"resolve", "fail"} => InflightOf(last.key) = 0
  /\ (last.act = "call" /\ last.got = "pending") => last.ret \in last.pendingBefore

\* the earlier computations have settled, one of them by failing, nothing was
\* pending any more, and the next caller was given a newly started computation
C28_Witness ==
  /\ last.act = "call" /\ last.got = "fresh" /\ last.started
  /\ nextId > 2
  /\ comps = {[id |-> nextId - 1, key |-> last.key]}
  /\ \E key \in Keys : failedLast[key]

(***************************************************************************)
(* Claims about the LRUCache                                               *)
(***************************************************************************)
StoredKeys(c) == {c[i].key : i \in 1..Len(c)}

\* C11: after any sequence of get, set, has and clear on a cache constructed with
\* maxSize >= 1, the number of stored entries never exceeds maxSize.
C11_SizeWithinMaxSize == Len(lruCache.cache) <= lruCache.maxSize

\* a set of a new key into a full cache has just run
C11_Witness ==
  /\ last.act = "set" /\ ~MapHas(last.before, last.key)
  /\ Len(last.before) = lruCache.maxSize /\ Len(lruCache.cache) = lruCache.maxSize

\* the stored key whose last get-hit or set is the oldest (the key just set is
\* last in recency, so for another key its position is the one before the set)
LeastRecent(r, stored) == r[MinOf({i \in 1..Len(r) : r[i] \in stored})]

\* C12: a set of an absent key into a cache holding maxSize entries evicts exactly
\* one entry, the one whose last get-hit or set is the oldest among the stored
\* entries; a set of a present key evicts no other entry; either way the key set
\* becomes the most recently used.
C12_SetEvictsLeastRecentlyUsed ==
  last.act = "set" =>
    LET before == StoredKeys(last.before)
        after == StoredKeys(lruCache.cache)
    IN /\ lruCache.cache[Len(lruCache.cache)].key = last.key
       /\ IF last.key \in before
          THEN after = before
          ELSE IF Len(last.before) = lruCache.maxSize
               THEN after = (before \ {LeastRecent(recency, before)}) \cup {last.key}
               ELSE after = before \cup {last.key}
       /\ \A i \in 1..Len(last.before) :
            (last.before[i].key \in after /\ last.before[i].key # last.key)
               => \E j \in 1..Len(lruCache.cache) : lruCache.cache[j] = last.before[i]

\* a set into a full cache of two has just evicted the entry that was set later:
\* a get-hit had made the entry set earlier the more recently used one
C12_Witness ==
  /\ last.act = "set" /\ ~MapHas(last.before, last.key)
  /\ Len(last.before) = lruCache.maxSize /\ lruCache.maxSize = 2
  /\ storedAt[last.before[2].key] < storedAt[last.before[1].key]

Expired(e) == now > e.expires

\* C13: a get past storedAt + ttl is a miss and removes the entry, so a following has
\* is false; has on an expired entry is false and removes it; an entry that is stored
\* and not expired is a hit for get (its value is returned) and for has, and stays.
C13_TtlHonoured ==
  /\ \A i \in 1..Len(lruCache.cache) :
       lruCache.cache[i].expires = storedAt[lruCache.cache[i].key] + lruCache.ttl
  /\ (last.act \in {"get", "has"} /\ MapHas(last.before, last.key)) =>
       LET e == MapGet(last.before, last.key)
       IN IF now > storedAt[last.key] + lruCache.ttl
          THEN /\ last.ret = (IF last.act = "get" THEN Undefined ELSE FALSE)
               /\ ~MapHas(lruCache.cache, last.key)
               /\ ~LRUCache_has(lruCache.cache, last.key, now)
               /\ StoredKeys(lruCache.cache) = StoredKeys(last.before) \ {last.key}
          ELSE /\ last.ret = (IF last.act = "get" THEN e.value ELSE TRUE)
               /\ MapHas(lruCache.cache, last.key)
               /\ StoredKeys(lruCache.cache) = StoredKeys(last.before)
  /\ (last.act \in {"get", "has"} /\ ~MapHas(last.before, last.key)) =>
       /\ last.ret = (IF last.act = "get" THEN Undefined ELSE FALSE)
       /\ lruCache.cache = last.before

\* a get has just found an expired entry and removed it
C13_Witness ==
  /\ last.act = "get" /\ MapHas(last.before, last.key)
  /\ now > storedAt[last.key] + lruCache.ttl
  /\ Len(lruCache.cache) > 0

(***************************************************************************)
(* Claims about the viewer                                                 *)
(***************************************************************************)
\* C10: within one connection the decoded events are pushed in the order
\* their messages were received: the receipt numbers of the pushed events
\* increase along the order of the pushes.
C10_PushesInReceiptOrder ==
  \A i \in 1..Len(pushLog) : \A j \in 1..Len(pushLog) :
     i < j => pushLog[i] < pushLog[j]

(***************************************************************************)
(* Claims about the frame decoder                                          *)
(***************************************************************************)
\* the input is encode(h) \o encode(b) for a header h with a numeric op
ValidPair == input.kind = "frame" /\ input.header \in FeatureHeaders \cup PlainHeaders
\* decodeFirehoseFrame ran to its try block on the input
Decoded == last.act = "decodeFirehoseFrame" /\ last.imported
\* the frame that carries header h and body b
FrameFor(h, b) ==
  [k |-> "frame", op |-> NumberOf(Get(Value(h), "op")), t |-> Get(Value(h), "t"),
   body |-> Value(b)]

C22_ReturnsFrameOrNull ==
  Decoded => output.k \in {"frame", "null"}

\* C23: a message that fails to decode is dropped: the step that handles it
\* changes neither the connection and retry state nor the buffer, and the
\* handler ends normally (no error leaves it, and it does end, so that later
\* messages are still handled).
C23_FailedMessageIsDropped ==
  [][(last'.act \in {"message", "imported"} /\ last'.parsed \notin {"none", "event"})
        => (UNCHANGED <<wsVars, eventBuffer, eventCount>> /\ output' = Fulfils)]_vars

(***************************************************************************)
(* Claims about the commit projection                                      *)
(***************************************************************************)
\* the ops array of a body, empty when ops is missing or no array
OpsOf(body) == IF Get(body, "ops").major = 4 THEN Get(body, "ops").items ELSE <<>>
AllowedAction(o) == Get(o, "action") \in {Str("create"), Str("update"), Str("delete")}

\* C24: parseCommitEvent on any decoded body with a repo field returns a
\* commit and never fails; its operations are exactly the entries of ops
\* whose action is create, update or delete, in their order (none when ops is
\* missing or no array); every other entry, whatever its shape, is dropped.
C24_CommitKeepsAllowedOps ==
  (last.act = "parseCommitEvent" /\ Has(Value(input.body), "repo")) =>
     /\ output.k = "commit"
     /\ LET kept == SelectSeq(OpsOf(Value(input.body)), AllowedAction)
        IN /\ Len(output.ops) = Len(kept)
           /\ \A i \in 1..Len(kept) :
                 /\ output.ops[i].action = Get(kept[i], "action")
                 /\ output.ops[i].path = OrElse(Get(kept[i], "path"), Str(""))

\* C26: every event decoded from a binary frame carries the sequence number
\* found in its message unchanged, for every frame type.
C26_EventCarriesSequenceNumber ==
  (last.act = "parseFirehoseEvent" /\ output.k = "event" /\ ValidPair
     /\ Has(Value(input.body), "seq"))
    => output.seq = Get(Value(input.body), "seq")

(***************************************************************************)
(* Claims about the jetstream events                                       *)
(***************************************************************************)
\* the JSON value carries the field (with a value other than null)
Carries(v, field) == v.t = "object" /\ v[field] \notin {JUndefined, JNull}

\* C25: parseJetstreamEvent returns null when the text is not valid JSON or
\* when did, time_us or kind is absent, and for every valid JSON text that
\* carries all three fields it returns the event with the fields unchanged.
C25_NullIffFieldAbsent ==
  last.act = "parseJetstreamEvent" =>
     IF input.valid /\ Carries(input.value, "did") /\ Carries(input.value, "time_us")
          /\ Carries(input.value, "kind")
     THEN output = [k |-> "event", value |-> input.value]
     ELSE output = ReturnsNull

\* C27: converting time_us to milliseconds yields floor(time_us / 1000) for
\* every integer time_us, negative values included.
C27_MillisecondsAreFloor ==
  last.act = "jetstreamTimestampToDate" => output.ms = input.value \div 1000

(***************************************************************************)
(* Claims about the archive decoder                                        *)
(***************************************************************************)
\* parseCar ran past ensureModulesLoaded on the input
Parsed == last.act = "parseCar" /\ last.imported

\* C29: input longer than MAX_CAR_SIZE is rejected with a size error naming
\* the actual and the maximum size, before the container is parsed; input of
\* at most MAX_CAR_SIZE bytes is never rejected for its size.
C29_OversizeRejectedWithSizes ==
  Parsed =>
     IF input.length > MAX_CAR_SIZE
     THEN /\ output = ThrowsError("Error", formatBytes(input.length), formatBytes(MAX_CAR_SIZE))
          /\ ~last.parsed
     ELSE output.k = "parsed" \/ output.name = "CarReaderError"

\* the positions of the blocks whose decoded form carries $type, in order
TypedBlocks(bs) == {i \in 1..Len(bs) : bs[i].content.t = "object" /\ bs[i].content.type # JUndefined}
Nth(S, j) == CHOOSE i \in S : Cardinality({k \in S : k < i}) = j - 1

\* C30: blocks holds one entry per block of the archive, in archive order,
\* a block that fails to decode as a raw marker with its byte length; records
\* holds exactly the blocks whose decoded form carries $type, in the same
\* order, each with its cid and the rkey "unknown"; no raw block is a record.
C30_BlocksKeptRecordsTyped ==
  (Parsed /\ output.k = "parsed") =>
     LET bs == input.blocks
         typed == TypedBlocks(bs)
     IN /\ Len(output.blocks) = Len(bs)
        /\ \A i \in 1..Len(bs) :
              /\ output.blocks[i].cid = CidString(bs[i].cid)
              /\ output.blocks[i].decoded =
                    IF bs[i].content = Undecodable THEN RawMarker(bs[i].size) ELSE bs[i].content
        /\ Len(output.records) = Cardinality(typed)
        /\ \A j \in 1..Len(output.records) :
              /\ output.records[j].cid = CidString(bs[Nth(typed, j)].cid)
              /\ output.records[j].value = bs[Nth(typed, j)].content
              /\ output.records[j].collection = bs[Nth(typed, j)].content.type
              /\ output.records[j].rkey = "unknown"
              /\ "raw" \notin DOMAIN output.records[j].value

\* an archive of three blocks, two records around a block that does not
\* decode: three blocks entries with the raw marker, two records
C30_Witness ==
  /\ Parsed /\ output.k = "parsed"
  /\ Len(input.blocks) = 3 /\ input.blocks[2].content = Undecodable
  /\ Len(output.blocks) = 3 /\ output.blocks[2].decoded = RawMarker(2)
  /\ Len(output.records) = 2
  /\ output.records[1].collection # output.records[2].collection

(***************************************************************************)
(* Claims about the value classification                                   *)
(***************************************************************************)
RuleOrder ==
  <<"at-uri", "did", "blob-ref", "strong-ref", "tid", "datetime", "cid", "base64", "bytes">>
\* the value satisfies the rule of the kind
Matches(kind, v) ==
  CASE kind = "at-uri" -> isAtUri(v)
    [] kind = "did" -> isDid(v)
    [] kind = "blob-ref" -> isBlobRef(v)
    [] kind = "strong-ref" -> isStrongRef(v)
    [] kind = "tid" -> TypeOf(v) = "string" /\ isTid(v.chars)
    [] kind = "datetime" -> isDatetime(v)
    [] kind = "cid" -> isCid(v)
    [] kind = "base64" -> isBase64(v)
    [] kind = "bytes" -> isBytes(v)
Hits(v) == {i \in DOMAIN RuleOrder : Matches(RuleOrder[i], v)}
Classified == last.act = "detectEncoding"

\* C31: detectEncoding returns the kind of the first rule that matches in
\* the order at-uri, did, blob-ref, strong-ref, tid, datetime, cid, base64,
\* bytes, and unknown when none matches.
C31_FirstMatchingRuleWins ==
  Classified =>
     IF Hits(input.value) = {} THEN output.kind = "unknown"
     ELSE output.kind = RuleOrder[CHOOSE i \in Hits(input.value) : \A j \in Hits(input.value) : i <= j]

\* a string that is both a timestamp-key and a content identifier got tid
C31_Witness ==
  /\ Classified
  /\ Matches("tid", input.value) /\ Matches("cid", input.value)
  /\ output.kind = "tid"

\* C32: detectEncoding returns a kind for every JSON-like value, and never
\* base64 for a string shorter than 20 characters.
C32_TotalAndNoShortBase64 ==
  Classified =>
     /\ output.k = "kind"
     /\ output.kind \in Range(RuleOrder) \cup {"unknown"}
     /\ (input.value.t = "string" /\ Len(input.value.chars) < 20) => output.kind # "base64"

\* a 16-character string of the base64 alphabet was classified unknown
C32_Witness ==
  /\ Classified
  /\ input.value.t = "string" /\ Len(input.value.chars) = 16
  /\ AllIn(input.value.chars, 1, 16, Base64Class)
  /\ output.kind = "unknown"

(***************************************************************************)
(* Claims about the timestamp of a TID                                     *)
(***************************************************************************)
\* x <= y in the lexicographic order of sequences of numbers of one length
LexLeq(x, y) ==
  \/ x = y
  \/ \E i \in DOMAIN x : x[i] < y[i] /\ \A j \in 1..(i - 1) : x[j] = y[j]
\* the first 11 characters of the key as positions in the alphabet
KeyPrefix(tid) == [i \in 1..11 |-> indexOf(tid[i])]
TidsDecoded == last.act = "tidToDate"

\* C33: when the first 11 characters of a are lexicographically at most
\* those of b in the order of the alphabet, the timestamp of a is at most
\* that of b; keys that agree on their first 11 characters have the same
\* timestamp whatever their last 2 characters are.
C33_TimestampMonotoneInPrefix ==
  TidsDecoded =>
     /\ output.a.k = "date" /\ output.b.k = "date"
     /\ LexLeq(KeyPrefix(input.a), KeyPrefix(input.b)) =>
          LexLeq(output.a.msDigits, output.b.msDigits)
     /\ KeyPrefix(input.a) = KeyPrefix(input.b) => output.a.msDigits = output.b.msDigits

\* two keys whose first 11 characters are in strict order and whose last
\* characters are in the opposite order were decoded to different instants
C33_Witness ==
  /\ TidsDecoded
  /\ KeyPrefix(input.a) # KeyPrefix(input.b)
  /\ LexLeq(KeyPrefix(input.a), KeyPrefix(input.b))
  /\ indexOf(input.a[12]) > indexOf(input.b[12])
  /\ output.a.msDigits # output.b.msDigits
  /\ LexLeq(output.a.msDigits, output.b.msDigits)

(***************************************************************************)
(* Claims about the archive fetch                                          *)
(***************************************************************************)
\* the response declares a length above the limit
DeclaredOversize ==
  /\ input.contentLength.t = "string"
  /\ ~parseInt(input.contentLength.chars).nan
  /\ parseInt(input.contentLength.chars).n > MAX_CAR_SIZE
Logged(step) == "log" \in DOMAIN last /\ step \in Range(last.log)

\* C34: the declared Content-Length is compared with the limit before the
\* body is read: when it exceeds the limit the fetch fails with the size
\* error and the body is never buffered; a non-success status fails before
\* any size check or buffering.
C34_LengthCheckedBeforeBuffering ==
  (input.kind = "fetch" /\ Logged("response.ok")) =>
     /\ ~input.ok =>
          /\ output = ThrowsError("HttpError", NoSize, NoSize)
          /\ ~Logged("content-length") /\ ~Logged("arrayBuffer")
     /\ (input.ok /\ DeclaredOversize) =>
          /\ output = ThrowsError("Error", formatBytes(parseInt(input.contentLength.chars).n),
                                  formatBytes(MAX_CAR_SIZE))
          /\ ~Logged("arrayBuffer")

(***************************************************************************)
(* Claims about the memoized value decoder                                 *)
(***************************************************************************)
\* C35: after any calls on other values, decodeValue(value, key) returns
\* the kind, original value, decoded form, display text and navigation
\* target of the uncached decode of that value.
C35_MemoizationIsTransparent ==
  last.act = "decodeValue" => output = decodeValueInternal(last.value)

(***************************************************************************)
(* Claims about memoized results                                           *)
(***************************************************************************)
\* the cache holds an entry for the key that has not expired
LiveEntry(key) == MapHas(cache, key) /\ ~(now > MapGet(cache, key).expires)

\* C36: a call for a key whose computation completed with result r, made
\* while the entry is neither expired nor evicted, returns r and does not
\* invoke the function again, whatever r is.
C36_CompletedResultIsReused ==
  (wrapper = "memoizeAsync" /\ last.act = "call" /\ LiveEntry(last.key)) =>
     /\ ~last.started
     /\ last.got = "cached"
     /\ last.ret = MapGet(cache, last.key).value

(***************************************************************************)
(* Claims about the stream viewers                                         *)
(***************************************************************************)
\* C37: after disconnect() of the viewer has returned, no event is pushed
\* until connect() is called again, also for messages received and not yet
\* decoded at the disconnect; no event received while paused is pushed.
C37_NoPushAfterDisconnectOrPause ==
  \A i \in DOMAIN viewer.pushes :
     ~viewer.pushes[i].afterDisconnect /\ ~viewer.pushes[i].pausedAtReceipt

\* C38: at most one transport of the viewer is live: connect() disconnects
\* the transport created before, also when it is called while an earlier
\* connect() awaits the resolution of the identifier.
C38_AtMostOneLiveTransport == Cardinality(viewer.live) <= 1

\* C39: at most one render timer is pending, and after every push a render
\* that reads the buffer at or after the push eventually runs.
C39_OneTimerAndPushEventuallyRendered ==
  /\ [](viewer.timers <= 1)
  /\ \A n \in 1..(MaxStreamMsgs + 1) : (Len(viewer.pushes) >= n) ~> (viewer.rendered >= n)

(***************************************************************************)
(* Specifications                                                          *)
(***************************************************************************)
Init == InitWS /\ IdleBuf /\ IdleCo /\ IdleLRU /\ IdleView
Next == NextWS
Spec == Init /\ [][Next]_vars
SpecLive == Spec /\ WF_vars(\E t \in TimerIds : TimerFire(t))
SpecBuf == InitBuf /\ [][NextBuf]_vars
SpecCo == InitCo /\ [][NextCo]_vars
SpecLRU == InitLRU /\ [][NextLRU]_vars
SpecView == InitView /\ [][NextView]_vars
SpecFrame == InitFrame /\ [][NextFrame]_vars
SpecJet == InitJet /\ [][NextJet]_vars
SpecCar == InitCar /\ [][NextCar]_vars
SpecClassify == InitClassify /\ [][NextClassify]_vars
SpecTid == InitTid /\ [][NextTid]_vars
SpecFetch == InitFetch /\ [][NextFetch]_vars
SpecDecode == InitDecode /\ [][NextDecode]_vars
SpecStream == InitStream /\ [][NextStream]_vars
SpecStreamLive == SpecStream /\ WF_vars(RenderTimer)

====
